---- MODULE Spec2Model ----
(***************************************************************************)
(* A model of the session-scoped tool execution engine of tigl-mcp:        *)
(*   - SessionManager (tigl_mcp_server/session_manager.py): the registry   *)
(*     of sessions, its lock, create_session / get / close;                *)
(*   - the session-scoped tool handlers (tigl_mcp_server/tools/*.py) as    *)
(*     far as session resolution goes: require_session and the three-way   *)
(*     unpacking of what it returns;                                       *)
(*   - MCPServer (tigl_mcp/server.py): the tool catalog.                   *)
(* Client requests run on threads; every step of a thread is one action.   *)
(***************************************************************************)
EXTENDS Integers, Sequences, FiniteSets, TLC

\* ------------------------------------------------------------------ bounds

\* Number of opens (sessions, uuids, handle triples) one run performs.
MaxSessions == 2

\* Number of set_high_level_parameters calls one run performs.
MaxCalls == 2

\* Number of component elements a document holds at most.
MaxElements == 3

\* Number of arguments a register_tools call has at most.
MaxTools == 3

\* ------------------------------------------------------------- constants

Threads == {"t1", "t2"}

NoThread == "none"

\* The values uuid.uuid4() can produce in a run.
Tokens == 1 .. MaxSessions

\* Object identities of the handles and models an open allocates.
Objects == 1 .. MaxSessions

\* The session-scoped tools whose handlers are modelled.
SessionTools == {"export_component_mesh", "set_high_level_parameters"}

\* The release method names close probes, in the order it probes them.
TiglCloseNames == <<"close", "closeConfiguration", "close_configuration">>

TixiCloseNames == <<"closeDocument", "close_document", "close">>

\* The classes of handle a session can hold, each given by the probed names
\* its handles expose as callables: the stand-ins of cpacs.py (close only),
\* engine wrappers exposing several of the names, and opaque handles that
\* expose none.
HandleClasses ==
    { [tixi |-> {"close"}, tigl |-> {"close"}],
      [tixi |-> {"closeDocument", "close"},
       tigl |-> {"closeConfiguration", "close_configuration"}],
      [tixi |-> {}, tigl |-> {}] }

\* What a release method does when called: it returns, or raises an
\* Exception.
ReleaseOutcomes == {"ok", "raise"}

\* ---------------------------------------------------------------- values

\* SessionData(session_id, tixi_handle, tigl_handle, config); handles and
\* the model are references (object identities).
SessionData(t, d, c, m) ==
    [session_id |-> t, tixi_handle |-> d, tigl_handle |-> c, config |-> m]

NoData == SessionData(0, 0, 0, 0)

\* The parameters of the components parse_cpacs finds in the sample document
\* (wing W1: span 30.0, area 80.0; fuselage F1: length 25.0).
parse_cpacs ==
    [W1 |-> [span |-> 30, area |-> 80], F1 |-> [length |-> 25]]

NoConfig == [W1 |-> [span |-> 0, area |-> 0], F1 |-> [length |-> 0]]

\* MCPError(error_type, message): the message is kept as its text and the
\* token it names.
MCPError(error_type, text, t) ==
    [type |-> error_type, message |-> <<text, t>>]

NoError == [type |-> "", message |-> <<"", 0>>]

\* The error of require_session's defensive path, raised in its place.
InvalidSessionError_Generic(t) ==
    MCPError("SessionError", "Failed to access session", 0)

\* raise_mcp_error("InvalidSession", f"Unknown session_id '{session_id}'")
InvalidSessionError(t) == MCPError("InvalidSession", "Unknown session_id", t)

\* The result a request leaves: ok or error, where it ended ("registry":
\* SessionManager, "unpack": the handler's three-way unpacking, "handler":
\* the handler's domain logic; for an open that failed before
\* create_session the step that failed), the error, and what it returned.
Result(status, at, err, data) ==
    [status |-> status, at |-> at, error |-> err, data |-> data]

NoResult == Result("", "", NoError, NoData)

\* The request a thread runs: its kind, the tool (a tool call), the token
\* it carries, and two observations taken for the record: what the token
\* was when the request began ("closed": its close had returned; "live":
\* create_session had returned it and no close of it had returned;
\* "unknown": neither), and whether a close of the token removed the entry
\* while the request was running.
Request(kind, tool, t, phase, raced) ==
    [kind |-> kind, tool |-> tool, tok |-> t, phase |-> phase, raced |-> raced]

NoRequest == Request("", "", 0, "", FALSE)

\* A thread's locals: the SessionData it read or built, a pending
\* exception, and (inside close) the handles whose release call raised.
Locals(data, exc, raised) == [data |-> data, exc |-> exc, raised |-> raised]

NoLocals == Locals(NoData, NoError, {})

\* ------------------------------------------------------------------ state

VARIABLES
    sessions,      \* SessionManager._sessions: dict token -> SessionData
    lock,          \* SessionManager._lock: the thread holding it
    issued,        \* the tokens uuid4 has produced
    handleClass,   \* the class of the handles this process works with
    nobjs,         \* number of handle triples allocated so far
    config,        \* heap: each Configuration object's component parameters
    tiglCalls,     \* heap: the release calls made on each tigl handle
    tixiCalls,     \* heap: the release calls made on each tixi handle
    pc,            \* each thread's position
    req,           \* each thread's request
    loc,           \* each thread's locals
    result,        \* each thread's result
    created,       \* record: token -> the SessionData create_session stored
    returned,      \* record: how many times create_session returned each token
    closedOk,      \* record: the tokens whose close returned normally
    tools,         \* MCPServer._tools: dict name -> ToolDefinition
    lastReg,       \* the last register_tool call and how it ended
    registered,    \* record: the names whose register_tool call returned
    lastRun,       \* the last run_tool / catalog read and how it ended
    xp,            \* the export call in progress: its locals and position
    lastCall,      \* the last handler call and how it ended
    cad,           \* the CAD export in progress: its locals and position
    pu,            \* the components' parameters and the last update call
    doc            \* the document last parsed and its Configuration

registryVars ==
    <<sessions, lock, issued, handleClass, nobjs, config, tiglCalls,
      tixiCalls, pc, req, loc, result, created, returned, closedOk>>

catalogVars == <<tools, lastReg>>

dispatchVars == <<registered, lastRun>>

exportVars == <<xp, lastCall>>

\* The calls that are entered with what a session holds.
toolVars == <<cad, pu, doc>>

\* Everything outside the session registry and its threads.
serverVars == <<tools, lastReg, registered, lastRun, xp, lastCall, toolVars>>

vars ==
    <<sessions, lock, issued, handleClass, nobjs, config, tiglCalls,
      tixiCalls, pc, req, loc, result, created, returned, closedOk,
      tools, lastReg, registered, lastRun, xp, lastCall, toolVars>>

\* ToolDefinition(name, ..., handler): two definitions of one name differ in
\* their handler.
ToolDefinition(name, handler) == [name |-> name, handler |-> handler]

\* The names of the tool definitions offered for registration.
ToolNames == {"dummy", "get_high_level_parameters", "intersect_components"}

\* The handlers a definition can carry: handler_a returns a payload,
\* handler_b raises an MCPError, handler_c raises a RuntimeError.
Handlers == {"handler_a", "handler_b", "handler_c"}

\* The tool definitions offered for registration.
ToolDefinitions ==
    {ToolDefinition(n, h) : n \in ToolNames, h \in Handlers}

\* ------------------------------------------------------- dict operations

EmptyDict == [k \in {} |-> NoData]

\* A store that keeps only the newest entry.
DictSet_OnlyLatest(d, k, v) ==
    [x \in {k} |-> v]

\* d[k] = v
DictSet(d, k, v) ==
    [x \in DOMAIN d \cup {k} |-> IF x = k THEN v ELSE d[x]]

\* d.get(k): None is NoData
DictGet(d, k) ==
    IF k \in DOMAIN d THEN d[k] ELSE NoData

\* A del that leaves the entry in place.
DictDel_Keep(d, k) == d

\* del d[k]
DictDel(d, k) ==
    [x \in DOMAIN d \ {k} |-> d[x]]

\* ------------------------------------------------------------ the lock

\* A with block that does not wait for the lock.
LockAvailable_NoWait(l) == TRUE

\* threading.Lock: `with self._lock:` enters only when no thread holds it.
LockAvailable(l) == l = NoThread

\* The positions inside a `with self._lock:` block.
InCritical == {"c_exit", "g_exit", "x_tigl", "x_tixi", "x_del", "x_exit"}

\* ------------------------------------------------------ parameter models

\* Raw argument values, as the client sends them: a str, an int, None.
StrValue == "abc"

IntValue == "<int 7>"

NoneValue == "<None>"

\* The default of n_points_per_curve (the int 50).
DefaultPoints == "<int 50>"

\* type(v).__name__
TypeName(v) ==
    IF v \in {IntValue, DefaultPoints} THEN "int"
    ELSE IF v = NoneValue THEN "NoneType"
    ELSE "str"

\* A declared field: its annotation, the members of a Literal annotation,
\* and its default (required fields have none: "").
Field(annotation, members, default) ==
    [annotation |-> annotation, members |-> members, default |-> default]

\* MeshFormat = Literal["stl", "vtk", "collada", "su2"]
MeshFormat == {"stl", "vtk", "collada", "su2"}

\* The parameters_model of each tool: its declared fields.
parameters_model(name) ==
    CASE name = "dummy" ->
            [f \in {} |-> Field("str", {}, "")]
      [] name = "get_high_level_parameters" ->
            [f \in {"session_id", "component_uid"} |-> Field("str", {}, "")]
      [] name = "intersect_components" ->
            [f \in {"session_id", "component_uid_one", "component_uid_two",
                    "n_points_per_curve"} |->
                IF f = "n_points_per_curve"
                THEN Field("int", {}, DefaultPoints)
                ELSE Field("str", {}, "")]
      [] name = "export_component_mesh" ->
            [f \in {"session_id", "component_uid", "format",
                    "meshing_options"} |->
                IF f = "format" THEN Field("Literal", MeshFormat, "")
                ELSE IF f = "meshing_options"
                     THEN Field("dict | None", {}, NoneValue)
                     ELSE Field("str", {}, "")]
      [] name = "get_configuration_summary" ->
            [f \in {"session_id"} |-> Field("str", {}, "")]
      [] name = "export_configuration_cad" ->
            [f \in {"session_id", "format"} |->
                IF f = "format" THEN Field("Literal", {"step", "iges"}, "")
                ELSE Field("str", {}, "")]

\* An annotation that accepts every raw value.
Accepts_Any(field, v) == TRUE

\* Whether a field's annotation accepts a raw value.
Accepts(field, v) ==
    CASE field.annotation = "Literal" -> v \in field.members
      [] field.annotation = "dict | None" -> v = NoneValue
      [] OTHER -> TypeName(v) = field.annotation

\* A model that ignores the fields it does not declare (extra="ignore").
model_validate_IgnoreExtra(name, raw) ==
    LET schema == parameters_model(name)
        missing == {f \in DOMAIN schema :
                       schema[f].default = "" /\ f \notin DOMAIN raw}
        wrong == {f \in DOMAIN raw \cap DOMAIN schema :
                     ~Accepts(schema[f], raw[f])}
    IN [ok |-> missing = {} /\ wrong = {},
        value |-> [f \in DOMAIN schema |->
                     IF f \in DOMAIN raw THEN raw[f] ELSE schema[f].default]]

\* parameters_model(**raw) / model_validate(raw) followed by model_dump():
\* a ValidationError when a required field is missing, a field is not
\* declared (extra="forbid") or a value is not accepted by its annotation;
\* otherwise every declared field, with its given value or its default.
model_validate(name, raw) ==
    LET schema == parameters_model(name)
        missing == {f \in DOMAIN schema :
                       schema[f].default = "" /\ f \notin DOMAIN raw}
        extra == DOMAIN raw \ DOMAIN schema
        wrong == {f \in DOMAIN raw \cap DOMAIN schema :
                     ~Accepts(schema[f], raw[f])}
    IN [ok |-> missing = {} /\ extra = {} /\ wrong = {},
        value |-> [f \in DOMAIN schema |->
                     IF f \in DOMAIN raw THEN raw[f] ELSE schema[f].default]]

\* {} : no arguments
EmptyArgs == [f \in {} |-> ""]

\* ToolDefinition.validate(parameters): the ValidationError becomes a
\* ValueError whose message carries the tool's name.
validate(tool, parameters) ==
    LET v == model_validate(tool.name, parameters)
    IN IF v.ok
       THEN [ok |-> TRUE, exc |-> "", message |-> <<"", "">>, value |-> v.value]
       ELSE [ok |-> FALSE, exc |-> "ValueError",
             message |-> <<"Invalid parameters for tool", tool.name>>,
             value |-> EmptyArgs]

\* ------------------------------------------------------- dispatch values

\* ToolResult(name, payload)
ToolResult(name, payload) == [name |-> name, payload |-> payload]

NoToolResult == ToolResult("", "")

\* What a run_tool call, or a catalog read, did and how it ended: the
\* steps it took in order, the exception that left it ("" when it
\* returned) with its message, the arguments the handler was called with,
\* and what was returned.
Run(op, name, parameters, steps, exc, message, handlerArgs, value, names, keys) ==
    [op |-> op, name |-> name, parameters |-> parameters, steps |-> steps,
     exc |-> exc, message |-> message, handlerArgs |-> handlerArgs,
     value |-> value, names |-> names, keys |-> keys]

NoRun ==
    Run("", "", EmptyArgs, <<>>, "", <<"", "">>, EmptyArgs, NoToolResult,
        <<>>, {})

\* --------------------------------------------------------- export values

\* The details of an MCPError: a text, or a list of per-attempt errors.
Details(text, errors) == [text |-> text, errors |-> errors]

NoDetails == Details("", <<>>)

\* raise_mcp_error(error_type, message, details): the MCPError raised; the
\* message is kept as its text and the name it embeds.
raise_mcp_error(error_type, message, details) ==
    [type |-> error_type, message |-> message, details |-> details]

NoMCPError == raise_mcp_error("", <<"", "">>, NoDetails)

\* ComponentDefinition(uid, index, type_name, parameters["tigl_uid"])
ComponentDefinition(uid, index, type_name, tigl_uid) ==
    [uid |-> uid, index |-> index, type_name |-> type_name,
     tigl_uid |-> tigl_uid]

NoComponent == ComponentDefinition("", 0, "", "")

\* A bytes value: its length and its content, as a sequence of chunks.
Bytes(len, chunks) == [len |-> len, chunks |-> chunks]

NoBytes == Bytes(0, <<>>)

\* What a handler, or an export function, left: what it returned ("ok") or
\* raised ("error": the class of the exception, and the MCPError when it
\* is one), and the response: format and mesh_base64.
Outcome(status, exc, error, format, mesh_base64) ==
    [status |-> status, exc |-> exc, error |-> error, format |-> format,
     mesh_base64 |-> mesh_base64]

NoOutcome == Outcome("", "", NoMCPError, "", <<"", NoBytes>>)

\* The locals of a call of _export_mesh_bytes and of what it calls: the
\* position, the component and format, the export methods the handle
\* exposes as callables, the index of the next route of the STL chain,
\* `tried` and `errors` of _export_stl_bytes_via_tigl3, the STL bytes, the
\* mesh bytes, and the outcome; and whether a file exists at the path of
\* the temporary file of the call, which no call has before it begins.
ExportState(at, component, format, methods, route, tried, errors, stl, mesh, outcome) ==
    [at |-> at, component |-> component, format |-> format,
     methods |-> methods, route |-> route, tried |-> tried,
     errors |-> errors, stl |-> stl, mesh |-> mesh, outcome |-> outcome,
     stl_path |-> FALSE]

NoExport ==
    ExportState("idle", NoComponent, "", {}, 0, <<>>, <<>>, NoBytes, NoBytes,
                NoOutcome)

\* A handler call: the tool, its raw parameters, what the record said of
\* the session when it began, how far the body got, what the body raised,
\* and the outcome.
Call(tool, raw, phase, reached, raised, outcome) ==
    [tool |-> tool, raw |-> raw, phase |-> phase, reached |-> reached,
     raised |-> raised, outcome |-> outcome]

NoCall ==
    Call("", EmptyArgs, "", "",
         [exc |-> "", error |-> NoMCPError, text |-> ""], NoOutcome)

\* The locals of the CAD export of a handler call: the position, the
\* format, the export methods the tigl handle exposes as callables, the
\* xml_content attribute of the tixi handle ("" when it has none), the
\* index of the next candidate, `tried` and `errors`, the source tag, and
\* the outcome; and whether a file exists at out_path, with its content.
NoCad ==
    [at |-> "idle", format |-> "", methods |-> {}, xml_content |-> "",
     route |-> 0, tried |-> <<>>, errors |-> <<>>, source |-> "",
     outcome |-> NoOutcome, out_path |-> FALSE, content |-> NoBytes]

\* ----------------------------------------------------- parameter updates

\* float(n) for a whole number n: a float is held as its number of
\* thousandths, so that the products and quotients below are exact.
Float(n) == 1000 * n

\* An update value as pydantic hands it over (dict[str, float | str]): a
\* float, or a str given by its characters ("+", "-", "%" and runs of
\* other characters).
Num(n) == [type |-> "float", n |-> Float(n), chars |-> <<>>]

Str(chars) == [type |-> "str", n |-> 0, chars |-> chars]

\* The parameter names of an update: one the wing has, one no component has.
Keys == {"span", "sweep"}

\* component.parameters of every component of the sample document.
SampleParameters ==
    [u \in DOMAIN parse_cpacs |->
        [k \in DOMAIN parse_cpacs[u] |-> Float(parse_cpacs[u][k])]]

\* The record of a set_high_level_parameters call: its arguments, the
\* parameters of the component before it, whether it repeats the call
\* before it, and the response (new_parameters, warnings) or the error.
SetCall(uid, updates, before, repeats, status, error, new, warnings) ==
    [component_uid |-> uid, updates |-> updates, before |-> before,
     repeats |-> repeats, status |-> status, error |-> error,
     new_parameters |-> new, warnings |-> warnings]

NoSetCall ==
    SetCall("", <<>>, [k \in {} |-> 0], FALSE, "", NoMCPError,
            [k \in {} |-> 0], <<>>)

\* No document has been parsed.
NoDoc ==
    [parsed |-> FALSE, elements |-> <<>>,
     configuration |-> [wings |-> <<>>, fuselages |-> <<>>, rotors |-> <<>>,
                        engines |-> <<>>],
     listed |-> FALSE, components |-> <<>>, summarized |-> FALSE,
     box |-> [xmin |-> 0, xmax |-> 0, ymin |-> 0, ymax |-> 0, zmin |-> 0,
              zmax |-> 0],
     looked |-> "", found |-> [position |-> 0, component |-> NoComponent]]

\* ------------------------------------------------------------------- Init

Init ==
    /\ sessions = EmptyDict
    /\ lock = NoThread
    /\ issued = {}
    /\ handleClass \in HandleClasses
    /\ nobjs = 0
    /\ config = [k \in Objects |-> NoConfig]
    /\ tiglCalls = [k \in Objects |-> <<>>]
    /\ tixiCalls = [k \in Objects |-> <<>>]
    /\ pc = [th \in Threads |-> "idle"]
    /\ req = [th \in Threads |-> NoRequest]
    /\ loc = [th \in Threads |-> NoLocals]
    /\ result = [th \in Threads |-> NoResult]
    /\ created = [t \in Tokens |-> NoData]
    /\ returned = [t \in Tokens |-> 0]
    /\ closedOk = {}
    /\ tools = [n \in {} |-> ToolDefinition("", "")]
    /\ lastReg = [tool |-> ToolDefinition("", ""), outcome |-> ""]
    /\ registered = {}
    /\ lastRun = NoRun
    /\ xp = NoExport
    /\ lastCall = NoCall
    /\ cad = NoCad
    /\ pu = [calls |-> 0, components |-> SampleParameters, last |-> NoSetCall]
    /\ doc = NoDoc

\* What the record says of token t now.
Phase(t) ==
    IF t \in closedOk THEN "closed"
    ELSE IF returned[t] > 0 THEN "live"
    ELSE "unknown"

\* A thread's request ends: its result is set and it waits to be collected.
Finish(th, r) ==
    /\ result' = [result EXCEPT ![th] = r]
    /\ pc' = [pc EXCEPT ![th] = "done"]

\* ------------------------------------------------ open_cpacs, create_session

\* uuid.uuid4() with a collision-avoiding bug: a value no live session uses.
uuid4_Reuse ==
    {t \in Tokens \ DOMAIN sessions :
        \A u \in Tokens \ DOMAIN sessions : t <= u}

\* uuid.uuid4(): a value no earlier call produced (122 random bits, taken
\* never to repeat). Tokens are interchangeable, so the unused values are
\* produced in one fixed order.
uuid4 ==
    {t \in Tokens \ issued : \A u \in Tokens \ issued : t <= u}

\* The identity of a newly constructed object, the n-th of its type.
NewObject(n) == n

\* A parse that hands every open one cached CPACSConfiguration.
ConfigObject_Shared(k) == NewObject(1)

\* parse_cpacs(xml_content) returns a newly constructed CPACSConfiguration:
\* the identity of the one built by the k-th open.
ConfigObject(k) == NewObject(k)

\* The steps of open_cpacs that can fail before create_session is called:
\* "source": the path of a path source does not exist; "bindings": the
\* tixi3 / tigl3 modules could not be imported; "api": the Tixi3 object has
\* no open-from-string method; "engine": openString or Tigl3.open raises;
\* "parse": parse_cpacs raises on the content.
OpenFailures == {"source", "bindings", "api", "engine", "parse"}

\* An open_cpacs whose every failure is an OpenError.
open_error_AllOpenError(at) ==
    MCPError("OpenError", "Failed to open CPACS", 0)

\* The MCPError that leaves open_cpacs when the step fails: the ones the
\* handler raises itself pass `except MCPError`, any other exception becomes
\* OpenError "Failed to open CPACS".
open_error(at) ==
    IF at = "source" THEN MCPError("InvalidInput", "File not found", 0)
    ELSE IF at = "bindings"
    THEN MCPError("OpenError", "Real tigl3/tixi3 bindings not available.", 0)
    ELSE IF at = "api"
    THEN MCPError("OpenError",
                  "No supported TIXI open-from-string API found.", 0)
    ELSE MCPError("OpenError", "Failed to open CPACS", 0)

\* open_cpacs handler up to its call of create_session: the source is
\* read, the engine opens the document, parse_cpacs builds a new
\* Configuration, and the three are handed to create_session; or one of
\* these steps fails and the handler raises.
open_cpacs(th) ==
    /\ pc[th] = "idle"
    /\ req' = [req EXCEPT ![th] = Request("open", "open_cpacs", 0, "", FALSE)]
    /\ \/ /\ \E at \in OpenFailures :
                Finish(th, Result("error", at, open_error(at), NoData))
          /\ UNCHANGED <<nobjs, config, loc>>
       \/ /\ nobjs < MaxSessions
          /\ LET k == nobjs + 1
                 m == ConfigObject(k)
             IN /\ nobjs' = k
                /\ config' = [config EXCEPT ![m] = parse_cpacs]
                /\ loc' = [loc EXCEPT ![th] =
                             Locals(SessionData(0, NewObject(k), NewObject(k), m),
                                    NoError, {})]
          /\ pc' = [pc EXCEPT ![th] = "c_uuid"]
          /\ UNCHANGED result
    /\ UNCHANGED <<sessions, lock, issued, handleClass, tiglCalls, tixiCalls,
                   created, returned, closedOk, serverVars>>

\* session_id = str(uuid.uuid4())
create_session_uuid(th) ==
    /\ pc[th] = "c_uuid"
    /\ \E t \in uuid4 :
          /\ issued' = issued \cup {t}
          /\ loc' = [loc EXCEPT ![th].data.session_id = t]
    /\ pc' = [pc EXCEPT ![th] = "c_lock"]
    /\ UNCHANGED <<sessions, lock, handleClass, nobjs, config, tiglCalls,
                   tixiCalls, req, result, created, returned, closedOk,
                   serverVars>>

\* with self._lock: self._sessions[session_id] = SessionData(...)
create_session_store(th) ==
    /\ pc[th] = "c_lock"
    /\ LockAvailable(lock)
    /\ lock' = th
    /\ LET d == loc[th].data
       IN /\ sessions' = DictSet(sessions, d.session_id, d)
          /\ created' = [created EXCEPT ![d.session_id] = d]
    /\ pc' = [pc EXCEPT ![th] = "c_exit"]
    /\ UNCHANGED <<issued, handleClass, nobjs, config, tiglCalls, tixiCalls,
                   req, loc, result, returned, closedOk, serverVars>>

\* leaving the with block, return session_id
create_session_return(th) ==
    /\ pc[th] = "c_exit"
    /\ lock' = NoThread
    /\ returned' = [returned EXCEPT ![loc[th].data.session_id] = @ + 1]
    /\ Finish(th, Result("ok", "registry", NoError, loc[th].data))
    /\ UNCHANGED <<sessions, issued, handleClass, nobjs, config, tiglCalls,
                   tixiCalls, req, loc, created, closedOk, serverVars>>

\* ----------------------------------------------------- get, tool handlers

\* A client calls SessionManager.get(t) (as require_session does).
get_call(th, t) ==
    /\ pc[th] = "idle"
    /\ req' = [req EXCEPT ![th] = Request("get", "", t, Phase(t), FALSE)]
    /\ pc' = [pc EXCEPT ![th] = "g_lock"]
    /\ UNCHANGED <<sessions, lock, issued, handleClass, nobjs, config,
                   tiglCalls, tixiCalls, loc, result, created, returned,
                   closedOk, serverVars>>

\* A client calls a session-scoped tool's handler with session_id t; the
\* handler validates its parameters and calls require_session.
tool_call(th, tool, t) ==
    /\ pc[th] = "idle"
    /\ req' = [req EXCEPT ![th] = Request("tool", tool, t, Phase(t), FALSE)]
    /\ pc' = [pc EXCEPT ![th] = "g_lock"]
    /\ UNCHANGED <<sessions, lock, issued, handleClass, nobjs, config,
                   tiglCalls, tixiCalls, loc, result, created, returned,
                   closedOk, serverVars>>

\* with self._lock: data = self._sessions.get(session_id);
\* if data is None: raise_mcp_error("InvalidSession", ...)
get_read(th) ==
    /\ pc[th] = "g_lock"
    /\ LockAvailable(lock)
    /\ lock' = th
    /\ LET data == DictGet(sessions, req[th].tok)
       IN loc' = [loc EXCEPT ![th] =
                    IF data = NoData
                    THEN Locals(NoData, InvalidSessionError(req[th].tok), {})
                    ELSE Locals(data, NoError, {})]
    /\ pc' = [pc EXCEPT ![th] = "g_exit"]
    /\ UNCHANGED <<sessions, issued, handleClass, nobjs, config, tiglCalls,
                   tixiCalls, req, result, created, returned, closedOk,
                   serverVars>>

\* leaving the with block: the MCPError propagates (through require_session
\* and the handler, unchanged), or data is returned.
get_exit(th) ==
    /\ pc[th] = "g_exit"
    /\ lock' = NoThread
    /\ IF loc[th].exc # NoError
       THEN Finish(th, Result("error", "registry", loc[th].exc, NoData))
       ELSE IF req[th].kind = "get"
            THEN Finish(th, Result("ok", "registry", NoError, loc[th].data))
            ELSE /\ pc' = [pc EXCEPT ![th] = "h_unpack"]
                 /\ UNCHANGED result
    /\ UNCHANGED <<sessions, issued, handleClass, nobjs, config, tiglCalls,
                   tixiCalls, req, loc, created, returned, closedOk,
                   serverVars>>

\* `a, b, c = data` for what SessionManager.get returned: a SessionData is a
\* dataclass instance, which is not iterable, so the unpacking raises
\* TypeError.
Unpack3(data) ==
    [ok |-> FALSE, exc |-> "TypeError", value |-> <<0, 0, 0>>]

\* The kind each handler gives an unexpected exception (its
\* `except Exception` clause).
WrapKind(tool) ==
    IF tool = "export_component_mesh" THEN "MeshExportError"
    ELSE "ParameterError"

\* _, tigl_handle, config = require_session(session_manager, session_id)
\* and what follows it in the handler.
tool_unpack(th) ==
    /\ pc[th] = "h_unpack"
    /\ LET u == Unpack3(loc[th].data)
       IN IF u.ok
          THEN Finish(th, Result("ok", "handler", NoError,
                                 SessionData(loc[th].data.session_id,
                                             u.value[1], u.value[2], u.value[3])))
          ELSE Finish(th, Result("error", "unpack",
                                 MCPError(WrapKind(req[th].tool), u.exc, 0),
                                 NoData))
    /\ UNCHANGED <<sessions, lock, issued, handleClass, nobjs, config,
                   tiglCalls, tixiCalls, req, loc, created, returned,
                   closedOk, serverVars>>

\* ------------------------------------------------------------------ close

\* A client calls the close_cpacs handler, which calls
\* SessionManager.close(t) and passes its MCPError on unchanged.
close_call(th, t) ==
    /\ pc[th] = "idle"
    /\ req' = [req EXCEPT ![th] =
                 Request("close", "close_cpacs", t, Phase(t), FALSE)]
    /\ pc' = [pc EXCEPT ![th] = "x_lock"]
    /\ UNCHANGED <<sessions, lock, issued, handleClass, nobjs, config,
                   tiglCalls, tixiCalls, loc, result, created, returned,
                   closedOk, serverVars>>

\* An exception is raised inside close's with block.
close_raise(th, exc) ==
    /\ loc' = [loc EXCEPT ![th] = Locals(NoData, exc, {})]
    /\ pc' = [pc EXCEPT ![th] = "x_exit"]

\* with self._lock: data = self._sessions.get(session_id);
\* if data is None: raise_mcp_error("InvalidSession", ...)
close_read(th) ==
    /\ pc[th] = "x_lock"
    /\ LockAvailable(lock)
    /\ lock' = th
    /\ LET data == DictGet(sessions, req[th].tok)
       IN IF data = NoData
          THEN close_raise(th, InvalidSessionError(req[th].tok))
          ELSE /\ loc' = [loc EXCEPT ![th] = Locals(data, NoError, {})]
               /\ pc' = [pc EXCEPT ![th] = "x_tigl"]
    /\ UNCHANGED <<sessions, issued, handleClass, nobjs, config, tiglCalls,
                   tixiCalls, req, result, created, returned, closedOk,
                   serverVars>>

\* The first of `names` that the object exposes as a callable ("": none).
FirstCallable(methods, names) ==
    LET idx == {i \in 1 .. Len(names) : names[i] \in methods}
    IN IF idx = {} THEN ""
       ELSE names[CHOOSE i \in idx : \A j \in idx : i <= j]

\* A _best_effort_close without its try / except: the call's exception
\* leaves it.
best_effort_close_Propagate(methods, names, outcome) ==
    [called |-> FirstCallable(methods, names), escapes |-> outcome = "raise"]

\* _best_effort_close(obj, method_names): calls the first of the names the
\* object exposes, once; an exception of the call is swallowed (try / except
\* Exception: pass), so none escapes.
best_effort_close(methods, names, outcome) ==
    [called |-> FirstCallable(methods, names), escapes |-> FALSE]

\* _best_effort_close(data.tigl_handle, ["close", "closeConfiguration",
\* "close_configuration"])
close_tigl(th) ==
    /\ pc[th] = "x_tigl"
    /\ \E outcome \in ReleaseOutcomes :
          LET r == best_effort_close(handleClass.tigl, TiglCloseNames, outcome)
              h == loc[th].data.tigl_handle
          IN /\ r.called = "" => outcome = "ok"
             /\ tiglCalls' =
                   IF r.called = "" THEN tiglCalls
                   ELSE [tiglCalls EXCEPT ![h] = Append(@, r.called)]
             /\ IF r.escapes
                THEN close_raise(th, MCPError("CloseError", "Failed to close CPACS", 0))
                ELSE /\ pc' = [pc EXCEPT ![th] = "x_tixi"]
                     /\ loc' = [loc EXCEPT ![th].raised =
                                  IF outcome = "raise" THEN @ \cup {"tigl"} ELSE @]
    /\ UNCHANGED <<sessions, lock, issued, handleClass, nobjs, config,
                   tixiCalls, req, result, created, returned, closedOk,
                   serverVars>>

\* _best_effort_close(data.tixi_handle, ["closeDocument", "close_document",
\* "close"])
close_tixi(th) ==
    /\ pc[th] = "x_tixi"
    /\ \E outcome \in ReleaseOutcomes :
          LET r == best_effort_close(handleClass.tixi, TixiCloseNames, outcome)
              h == loc[th].data.tixi_handle
          IN /\ r.called = "" => outcome = "ok"
             /\ tixiCalls' =
                   IF r.called = "" THEN tixiCalls
                   ELSE [tixiCalls EXCEPT ![h] = Append(@, r.called)]
             /\ IF r.escapes
                THEN close_raise(th, MCPError("CloseError", "Failed to close CPACS", 0))
                ELSE /\ pc' = [pc EXCEPT ![th] = "x_del"]
                     /\ loc' = [loc EXCEPT ![th].raised =
                                  IF outcome = "raise" THEN @ \cup {"tixi"} ELSE @]
    /\ UNCHANGED <<sessions, lock, issued, handleClass, nobjs, config,
                   tiglCalls, req, result, created, returned, closedOk,
                   serverVars>>

\* del self._sessions[session_id]; leaving the with block, close returns
\* None and close_cpacs returns {"success": True}.
close_del(th) ==
    /\ pc[th] = "x_del"
    /\ sessions' = DictDel(sessions, req[th].tok)
    /\ req' = [x \in Threads |->
                 IF /\ x # th
                    /\ req[x].kind = "tool"
                    /\ req[x].tok = req[th].tok
                    /\ pc[x] \notin {"idle", "done"}
                 THEN [req[x] EXCEPT !.raced = TRUE]
                 ELSE req[x]]
    /\ lock' = NoThread
    /\ closedOk' = closedOk \cup {req[th].tok}
    /\ Finish(th, Result("ok", "registry", NoError, loc[th].data))
    /\ UNCHANGED <<issued, handleClass, nobjs, config, tiglCalls, tixiCalls,
                   loc, created, returned, serverVars>>

\* A with block that an exception leaves without releasing the lock.
close_exit_KeepLock(th) ==
    /\ pc[th] = "x_exit"
    /\ Finish(th, Result("error", "registry", loc[th].exc, NoData))
    /\ UNCHANGED <<sessions, lock, issued, handleClass, nobjs, config,
                   tiglCalls, tixiCalls, req, loc, created, returned,
                   closedOk, serverVars>>

\* An exception leaves close: the with block is left, the lock released,
\* and close_cpacs passes an MCPError on.
close_exit(th) ==
    /\ pc[th] = "x_exit"
    /\ lock' = NoThread
    /\ Finish(th, Result("error", "registry", loc[th].exc, NoData))
    /\ UNCHANGED <<sessions, issued, handleClass, nobjs, config, tiglCalls,
                   tixiCalls, req, loc, created, returned, closedOk,
                   serverVars>>

\* The client collects the result; the thread takes the next request.
Return(th) ==
    /\ pc[th] = "done"
    /\ pc' = [pc EXCEPT ![th] = "idle"]
    /\ req' = [req EXCEPT ![th] = NoRequest]
    /\ loc' = [loc EXCEPT ![th] = NoLocals]
    /\ result' = [result EXCEPT ![th] = NoResult]
    /\ UNCHANGED <<sessions, lock, issued, handleClass, nobjs, config,
                   tiglCalls, tixiCalls, created, returned, closedOk,
                   serverVars>>

Next ==
    \E th \in Threads :
        \/ open_cpacs(th)
        \/ create_session_uuid(th)
        \/ create_session_store(th)
        \/ create_session_return(th)
        \/ \E t \in Tokens : get_call(th, t)
        \/ \E t \in Tokens : \E tool \in SessionTools : tool_call(th, tool, t)
        \/ get_read(th)
        \/ get_exit(th)
        \/ tool_unpack(th)
        \/ \E t \in Tokens : close_call(th, t)
        \/ close_read(th)
        \/ close_tigl(th)
        \/ close_tixi(th)
        \/ close_del(th)
        \/ close_exit(th)
        \/ Return(th)

Spec == Init /\ [][Next]_vars

\* `with self._lock:` of a thread that waits for the lock.
Acquire(th) == create_session_store(th) \/ get_read(th) \/ close_read(th)

\* The steps of a registry operation that wait for nothing: the uuid4 call
\* and the statements inside a with block up to leaving it.
Proceed(th) ==
    \/ create_session_uuid(th)
    \/ create_session_return(th)
    \/ get_exit(th)
    \/ close_tigl(th)
    \/ close_tixi(th)
    \/ close_del(th)
    \/ close_exit(th)

\* Fair scheduling: a thread that can run does run (weak fairness of the
\* steps that wait for nothing), and a threading.Lock that is released
\* again and again is eventually acquired by each thread that waits for it
\* (strong fairness of the acquisition). Clients are not obliged to send
\* requests or to collect results.
FairSpec ==
    Spec /\ \A th \in Threads : WF_vars(Proceed(th)) /\ SF_vars(Acquire(th))

\* -------------------------------------------------------------- MCPServer

\* A register_tool without its duplicate check.
register_tool_Overwrite(tool) ==
    /\ tools' = DictSet(tools, tool.name, tool)
    /\ lastReg' = [tool |-> tool, outcome |-> "ok"]

\* MCPServer.register_tool(tool): raises ValueError when the name is in
\* _tools, and sets _tools[tool.name] = tool otherwise.
register_tool(tool) ==
    IF tool.name \in DOMAIN tools
    THEN /\ lastReg' = [tool |-> tool, outcome |-> "ValueError"]
         /\ UNCHANGED tools
    ELSE /\ tools' = DictSet(tools, tool.name, tool)
         /\ lastReg' = [tool |-> tool, outcome |-> "ok"]

CatalogNext ==
    \E tool \in ToolDefinitions :
        /\ register_tool(tool)
        /\ UNCHANGED <<registryVars, dispatchVars, exportVars, toolVars>>

CatalogSpec == Init /\ [][CatalogNext]_vars

\* The definitions offered to register_tools: one per name, and a second
\* one named "dummy" with another handler.
BatchDefinitions ==
    {ToolDefinition(n, "handler_a") : n \in ToolNames}
        \cup {ToolDefinition("dummy", "handler_b")}

RECURSIVE ArgumentLists(_)
\* The argument lists *tools of up to n definitions.
ArgumentLists(n) ==
    IF n = 0 THEN { <<>> }
    ELSE ArgumentLists(n - 1)
         \cup { Append(a, d) :
                  a \in { x \in ArgumentLists(n - 1) : Len(x) = n - 1 },
                  d \in BatchDefinitions }

RECURSIVE register_loop(_, _, _)
\* for tool in tools: self.register_tool(tool), from the k-th argument on,
\* on the dict d: the ValueError of register_tool leaves the loop.
register_loop(d, args, k) ==
    IF k > Len(args) THEN [tools |-> d, outcome |-> "ok", at |-> 0]
    ELSE IF args[k].name \in DOMAIN d
    THEN [tools |-> d, outcome |-> "ValueError", at |-> k]
    ELSE register_loop(DictSet(d, args[k].name, args[k]), args, k + 1)

\* A register_tools that registers nothing when one of its tools is
\* refused.
register_tools_outcome_Atomic(d, args) ==
    LET r == register_loop(d, args, 1)
    IN IF r.outcome = "ok" THEN r ELSE [r EXCEPT !.tools = d]

\* What MCPServer.register_tools(*tools) does to _tools, and how it ends.
register_tools_outcome(d, args) == register_loop(d, args, 1)

\* A client calls MCPServer.register_tools(*args).
register_tools(args) ==
    LET r == register_tools_outcome(tools, args)
    IN /\ tools' = r.tools
       /\ lastReg' = [tool |-> IF r.at = 0 THEN ToolDefinition("", "")
                               ELSE args[r.at],
                      outcome |-> r.outcome, args |-> args, at |-> r.at]
       /\ UNCHANGED <<registryVars, dispatchVars, exportVars, toolVars>>

BatchNext == \E args \in ArgumentLists(MaxTools) : register_tools(args)

BatchSpec == Init /\ [][BatchNext]_vars

\* --------------------------------------------------------------- dispatch

\* The names a request can carry: the offered names and one never offered.
RequestNames == ToolNames \cup {"missing"}

\* The raw argument sets a request for a name can carry: values for any of
\* the fields the tool declares, with or without a field it does not
\* declare.
RawArgs(name) ==
    LET declared == IF name \in ToolNames
                    THEN DOMAIN parameters_model(name) ELSE {}
    IN UNION {[S -> {StrValue, IntValue}] :
                 S \in SUBSET (declared \cup {"unexpected"})}

\* tool.handler(validated_params): what the definition's handler does.
call_handler(tool, args) ==
    CASE tool.handler = "handler_a" ->
            [exc |-> "", message |-> <<"", "">>, payload |-> "payload"]
      [] tool.handler = "handler_b" ->
            [exc |-> "MCPError", message |-> <<"NotFound", tool.name>>,
             payload |-> ""]
      [] OTHER ->
            [exc |-> "RuntimeError", message |-> <<"handler failed", tool.name>>,
             payload |-> ""]

\* The fixed order sorted() gives the offered names.
NameOrder == <<"dummy", "get_high_level_parameters", "intersect_components">>

\* sorted(self._tools): the names in order, each once.
sorted(names) ==
    LET IsIn(n) == n \in names
    IN SelectSeq(NameOrder, IsIn)

\* ToolDefinition.metadata(): name and schema (the declared fields).
metadata(tool) ==
    [name |-> tool.name, schema |-> DOMAIN parameters_model(tool.name)]

\* MCPServer.to_catalog(): {name: tool.metadata()}
to_catalog_dict(d) == [n \in DOMAIN d |-> metadata(d[n])]

\* A run_tool that calls the handler with the raw arguments before it
\* validates them.
run_tool_outcome_InvokeFirst(name, none, parameters) ==
    IF name \notin DOMAIN tools
    THEN Run("run_tool", name, parameters, <<"lookup">>,
             "KeyError", <<"Tool is not registered", name>>,
             EmptyArgs, NoToolResult, <<>>, {})
    ELSE LET tool == tools[name]
             given == IF none THEN EmptyArgs ELSE parameters
             h == call_handler(tool, given)
             v == validate(tool, given)
         IN Run("run_tool", name, parameters,
                <<"lookup", "invoke", "validate">>,
                IF v.ok THEN h.exc ELSE v.exc,
                IF v.ok THEN h.message ELSE v.message,
                given,
                IF v.ok /\ h.exc = "" THEN ToolResult(name, h.payload)
                ELSE NoToolResult,
                <<>>, {})

\* What MCPServer.run_tool(name, parameters=...) does: KeyError for a name
\* that is not in _tools; else tool.validate(parameters or {}), whose
\* ValueError leaves run_tool; else tool.handler(validated_params), whose
\* exception leaves run_tool; else ToolResult(name, payload). Nothing is
\* caught.
run_tool_outcome(name, none, parameters) ==
    IF name \notin DOMAIN tools
    THEN Run("run_tool", name, parameters, <<"lookup">>,
             "KeyError", <<"Tool is not registered", name>>,
             EmptyArgs, NoToolResult, <<>>, {})
    ELSE LET tool == tools[name]
             v == validate(tool, IF none THEN EmptyArgs ELSE parameters)
         IN IF ~v.ok
            THEN Run("run_tool", name, parameters,
                     <<"lookup", "validate">>, v.exc, v.message,
                     EmptyArgs, NoToolResult, <<>>, {})
            ELSE LET h == call_handler(tool, v.value)
                 IN Run("run_tool", name, parameters,
                        <<"lookup", "validate", "invoke">>,
                        h.exc, h.message, v.value,
                        IF h.exc = "" THEN ToolResult(name, h.payload)
                        ELSE NoToolResult,
                        <<>>, {})

\* A run_tool that unregisters a tool whose handler raised.
run_tool_Evict(name, none, parameters) ==
    /\ lastRun' = run_tool_outcome(name, none, parameters)
    /\ tools' = IF lastRun'.steps = <<"lookup", "validate", "invoke">>
                   /\ lastRun'.exc # ""
                THEN [n \in DOMAIN tools \ {name} |-> tools[n]]
                ELSE tools
    /\ UNCHANGED <<lastReg, registered>>

\* MCPServer.run_tool: reads _tools and writes nothing.
run_tool(name, none, parameters) ==
    /\ lastRun' = run_tool_outcome(name, none, parameters)
    /\ UNCHANGED <<tools, lastReg, registered>>

\* MCPServer.available_tools(): sorted(self._tools)
available_tools ==
    /\ lastRun' = Run("available_tools", "", EmptyArgs, <<>>, "", <<"", "">>,
                      EmptyArgs, NoToolResult, sorted(DOMAIN tools), {})
    /\ UNCHANGED <<tools, lastReg, registered>>

\* MCPServer.to_catalog()
to_catalog ==
    /\ lastRun' = Run("to_catalog", "", EmptyArgs, <<>>, "", <<"", "">>,
                      EmptyArgs, NoToolResult, <<>>,
                      DOMAIN to_catalog_dict(tools))
    /\ UNCHANGED <<tools, lastReg, registered>>

\* A client registers a tool; the names whose registration returned are
\* recorded.
Register(tool) ==
    /\ register_tool(tool)
    /\ registered' = IF lastReg'.outcome = "ok"
                     THEN registered \cup {tool.name} ELSE registered
    /\ UNCHANGED lastRun

\* The client has looked at what the last call returned or raised.
Collect ==
    /\ lastRun # NoRun
    /\ lastRun' = NoRun
    /\ UNCHANGED <<tools, lastReg, registered>>

DispatchNext ==
    \/ /\ lastRun = NoRun
       /\ UNCHANGED <<registryVars, exportVars, toolVars>>
       /\ \/ \E tool \in ToolDefinitions : Register(tool)
          \/ \E name \in RequestNames : \E none \in BOOLEAN :
                \E parameters \in RawArgs(name) :
                   /\ none => parameters = EmptyArgs
                   /\ run_tool(name, none, parameters)
          \/ available_tools
          \/ to_catalog
    \/ Collect /\ UNCHANGED <<registryVars, exportVars, toolVars>>

DispatchSpec == Init /\ [][DispatchNext]_vars

\* ------------------------------------------------ export resolution engine

\* The size an STL file must exceed (_try) or reach (_export_real_stl_bytes)
\* to count as a mesh.
MinStlSize == 2048

\* The legacy handle prefixes, and the marker of an SU2 file.
HandlePrefixes == {"mesh:", "su2-from-stl:"}

NDIME == "NDIME="

\* A chunk of bytes that is not ASCII.
NonAscii == "0xff"

\* The meshed-STL export methods _export_stl_bytes_via_tigl3 looks up.
StlMethods ==
    {"exportMeshedWingSTLByUID", "exportMeshedWingSTL",
     "exportMeshedFuselageSTLByUID", "exportMeshedFuselageSTL",
     "exportMeshedGeometrySTL"}

\* The sets of those methods a handle exposes as callables: none (the
\* stand-in of cpacs.py), all (an engine build), and partial builds.
ExportMethodSets ==
    { {}, StlMethods, {"exportMeshedGeometrySTL"},
      {"exportMeshedWingSTL", "exportMeshedFuselageSTL"},
      {"exportMeshedWingSTLByUID", "exportMeshedGeometrySTL"} }

\* The components of a parsed document: a wing, a wing whose uid holds an
\* underscore, a fuselage with a uID attribute (parameters["tigl_uid"]),
\* and a rotor.
Components ==
    { ComponentDefinition("W1", 1, "Wing", ""),
      ComponentDefinition("W_2", 2, "Wing", ""),
      ComponentDefinition("F1", 1, "Fuselage", "Fuse_T"),
      ComponentDefinition("R1", 1, "Rotor", "") }

\* The format strings a caller of the export functions passes: the
\* MeshFormat literals and one outside them.
RequestFormats == MeshFormat \cup {"obj"}

\* (component.type_name or "").lower()
Lower(type_name) ==
    CASE type_name = "Wing" -> "wing"
      [] type_name = "Fuselage" -> "fuselage"
      [] type_name = "Rotor" -> "rotor"
      [] OTHER -> type_name

\* u.replace("_", "")
RemoveUnderscores(u) ==
    CASE u = "W_2" -> "W2"
      [] u = "Fuse_T" -> "FuseT"
      [] OTHER -> u

\* s.title(): a capital starts each run of letters and the rest of the run
\* is lowered ("W1", "W2", "F1" and "R1" are left as they are).
Title(s) ==
    CASE s = "FuseT" -> "Fuset"
      [] OTHER -> s

\* The loop of _uid_candidates: the non-empty entries, each once, in order.
RECURSIVE Dedup(_, _)
Dedup(cands, seen) ==
    IF cands = <<>> THEN <<>>
    ELSE LET x == Head(cands)
         IN IF x # "" /\ x \notin seen
            THEN <<x>> \o Dedup(Tail(cands), seen \cup {x})
            ELSE Dedup(Tail(cands), seen)

\* _uid_candidates(component)
uid_candidates(component) ==
    IF component.tigl_uid # ""
    THEN <<component.tigl_uid>>
    ELSE LET u == component.uid
         IN Dedup(<<u, RemoveUnderscores(u), Title(RemoveUnderscores(u))>>, {})

\* A candidate of the STL chain: the method and its arguments, as the
\* selector (a uid, an index, or "" for the whole geometry) and whether the
\* deflection is passed.
Route(method, selector, deflection) ==
    [method |-> method, selector |-> selector, deflection |-> deflection]

\* The two candidates of one selector: with the deflection, then without.
Pair(method, selector) ==
    <<Route(method, selector, TRUE), Route(method, selector, FALSE)>>

RECURSIVE ByUID(_, _)
ByUID(method, uid_list) ==
    IF uid_list = <<>> THEN <<>>
    ELSE Pair(method, Head(uid_list)) \o ByUID(method, Tail(uid_list))

\* An index argument, told apart from a uid.
ByIndex(idx) == "#" \o ToString(idx)

\* A chain that tries the whole geometry first.
Routes_GeometryFirst(component) ==
    Pair("exportMeshedGeometrySTL", "")
       \o (IF Lower(component.type_name) = "wing"
           THEN ByUID("exportMeshedWingSTLByUID", uid_candidates(component))
                    \o Pair("exportMeshedWingSTL", ByIndex(component.index))
           ELSE <<>>)
       \o (IF Lower(component.type_name) = "fuselage"
           THEN ByUID("exportMeshedFuselageSTLByUID",
                      uid_candidates(component))
                    \o Pair("exportMeshedFuselageSTL",
                            ByIndex(component.index))
           ELSE <<>>)

\* The candidates of _export_stl_bytes_via_tigl3 in the order it tries
\* them ("wing" in ctype and "fuselage" in ctype decide on the lowered
\* type name, which for the type names of parsed components is the tag).
Routes(component) ==
    LET ctype == Lower(component.type_name)
        uid_list == uid_candidates(component)
        idx == ByIndex(component.index)
    IN (IF ctype = "wing"
        THEN ByUID("exportMeshedWingSTLByUID", uid_list)
                 \o Pair("exportMeshedWingSTL", idx)
        ELSE <<>>)
       \o (IF ctype = "fuselage"
           THEN ByUID("exportMeshedFuselageSTLByUID", uid_list)
                    \o Pair("exportMeshedFuselageSTL", idx)
           ELSE <<>>)
       \o Pair("exportMeshedGeometrySTL", "")

\* An unlink that removes nothing.
unlink_Keep(exists) == exists

\* path.unlink(missing_ok=True): no file exists at the path afterwards.
unlink(exists) == FALSE

\* What a call of an engine export method does: it raises, having left no
\* file or an unfinished one, or it returns having left no file, an empty
\* file, or a file of some size and content at stl_path.
EngineResult(raises, exists, file) ==
    [raises |-> raises, exists |-> exists, file |-> file]

EngineResults ==
    { EngineResult(TRUE, FALSE, NoBytes),
      EngineResult(TRUE, TRUE, NoBytes),
      EngineResult(FALSE, FALSE, NoBytes),
      EngineResult(FALSE, TRUE, NoBytes),
      EngineResult(FALSE, TRUE, Bytes(MinStlSize, <<"solid", "data">>)) }
    \cup { EngineResult(FALSE, TRUE, Bytes(MinStlSize + 1, c)) :
             c \in { <<"solid", "data">>, <<"mesh:", "data">>,
                     <<"mesh:", NonAscii>> } }

\* The entry _try appends to errors for a call that gave no mesh.
TryError(route, kind) ==
    [method |-> route.method, selector |-> route.selector,
     deflection |-> route.deflection, kind |-> kind]

\* _try(method, *args): None when the handle has no such callable;
\* otherwise the call is recorded in tried, made, and gives the bytes of
\* the file when it exists and is larger than 2048 bytes, and an errors
\* entry when the call raised, wrote a small file or wrote none.
try(methods, route, e) ==
    IF route.method \notin methods
    THEN [called |-> FALSE, found |-> FALSE, out |-> NoBytes, error |-> ""]
    ELSE IF e.raises
    THEN [called |-> TRUE, found |-> FALSE, out |-> NoBytes, error |-> "raise"]
    ELSE IF e.exists /\ e.file.len > MinStlSize
    THEN [called |-> TRUE, found |-> TRUE, out |-> e.file, error |-> ""]
    ELSE IF e.exists
    THEN [called |-> TRUE, found |-> FALSE, out |-> NoBytes, error |-> "small"]
    ELSE [called |-> TRUE, found |-> FALSE, out |-> NoBytes, error |-> "nofile"]

\* A membership test that finds every marker.
Contains_Any(b, marker) == TRUE

\* marker in mesh_bytes
Contains(b, marker) == \E i \in 1 .. Len(b.chunks) : b.chunks[i] = marker

\* mesh_bytes.decode("ascii") succeeds
IsAscii(b) == \A i \in 1 .. Len(b.chunks) : b.chunks[i] # NonAscii

\* text.startswith(prefix)
StartsWith(b, prefix) == Len(b.chunks) > 0 /\ b.chunks[1] = prefix

\* A _looks_like_handle that takes nothing for a handle.
looks_like_handle_Never(mesh_bytes) == FALSE

\* _looks_like_handle(mesh_bytes): False when the bytes do not decode as
\* ASCII; otherwise whether the text starts with a handle prefix.
looks_like_handle(mesh_bytes) ==
    IF ~IsAscii(mesh_bytes) THEN FALSE
    ELSE \E p \in HandlePrefixes : StartsWith(mesh_bytes, p)

\* _raise_unsupported_format(mesh_format, component_uid)
raise_unsupported_format(mesh_format, component_uid) ==
    raise_mcp_error("MeshExportError",
                    <<"Mesh export failed: format not supported for component",
                      mesh_format, component_uid>>,
                    NoDetails)

\* The errors of the SU2 and STL paths; the messages name the uid, or
\* nothing ("No working STL export route found.").
su2_error(text, uid, details) ==
    raise_mcp_error("MeshExportError", <<text, "", uid>>, details)

\* _ensure_export_supported(tigl_handle, mesh_format, component_uid): the
\* error it raises, NoMCPError when it returns.
ensure_export_supported(mesh_format, component_uid) ==
    IF mesh_format \in {"stl", "vtk", "collada", "su2"}
    THEN NoMCPError
    ELSE raise_unsupported_format(mesh_format, component_uid)

\* _synthetic_mesh_bytes(mesh_format, component), for the formats
\* _export_mesh_bytes passes to it.
synthetic_mesh_bytes(mesh_format, component) ==
    IF mesh_format = "vtk"
    THEN Bytes(90, <<"# vtk DataFile Version 3.0", "component",
                     component.uid>>)
    ELSE Bytes(150, <<"<?xml", "<COLLADA>", component.uid>>)

\* _validate_mesh_bytes(mesh_bytes, mesh_format, component): the error it
\* raises, NoMCPError when it returns the bytes.
validate_mesh_bytes(mesh_bytes, mesh_format, component) ==
    IF mesh_bytes.len = 0
    THEN raise_unsupported_format(mesh_format, component.uid)
    ELSE IF looks_like_handle(mesh_bytes)
    THEN raise_unsupported_format(mesh_format, component.uid)
    ELSE IF mesh_format = "su2" /\ ~Contains(mesh_bytes, NDIME)
    THEN su2_error("Conversion to SU2 failed or output invalid for",
                   component.uid, NoDetails)
    ELSE NoMCPError

\* base64.b64encode(validated_mesh).decode("utf-8")
b64encode(b) == <<"base64", b>>
\* The number of per-attempt errors the STL chain's error carries at most.
MaxDiagnostics == 20

\* The number of per-attempt errors the CAD chain's error carries at most.
MaxCadDiagnostics == 10

Min(a, b) == IF a <= b THEN a ELSE b

\* errors[n:]: the slice taken at the wrong end.
Truncate_Tail(errors, n) == SubSeq(errors, n + 1, Len(errors))

\* errors[:n]
Truncate(errors, n) == SubSeq(errors, 1, Min(n, Len(errors)))

\* The error _export_stl_bytes_via_tigl3 raises when no candidate gave a
\* mesh.
NoRouteError(errors) ==
    raise_mcp_error("MeshExportError",
                    <<"No working STL export route found.", "", "">>,
                    Details("", Truncate(errors, MaxDiagnostics)))

\* The error _export_real_stl_bytes raises: the chain's failure, as text,
\* is its details.
NoRealStlError(cause) ==
    raise_mcp_error("MeshExportError",
                    <<"No working STL export route found.", "", "">>,
                    Details("shape->stl failed: " \o cause, <<>>))

\* What meshio's read and write do with the STL: they raise, or leave some
\* bytes in the .su2 file.
ConvertResults ==
    { [raises |-> TRUE, out |-> NoBytes], [raises |-> FALSE, out |-> NoBytes] }
    \cup { [raises |-> FALSE, out |-> Bytes(40, c)] :
             c \in { <<NDIME, "data">>, <<"data">>,
                     <<"su2-from-stl:", NDIME>> } }

\* if not su2_bytes or b"NDIME=" not in su2_bytes: raise_mcp_error(...)
su2_check(su2_bytes, uid) ==
    IF su2_bytes.len = 0 \/ ~Contains(su2_bytes, NDIME)
    THEN su2_error("Conversion to SU2 failed or output invalid for", uid,
                   NoDetails)
    ELSE NoMCPError

\* The export ends with an MCPError.
Fail(x, error) ==
    [x EXCEPT !.at = "done",
              !.outcome = Outcome("error", "MCPError", error, x.format,
                                  <<"", NoBytes>>)]

\* Lines 375-386 for a resolved component: _ensure_export_supported, then
\* _export_mesh_bytes picks the path of the format.
export_begin(component, format, methods) ==
    /\ xp.at = "idle"
    /\ LET e == ensure_export_supported(format, component.uid)
           x == ExportState("", component, format, methods, 1, <<>>, <<>>,
                            NoBytes, NoBytes, NoOutcome)
       IN xp' = IF e # NoMCPError THEN Fail(x, e)
                ELSE IF format = "su2" THEN [x EXCEPT !.at = "import"]
                ELSE IF format = "stl"
                THEN [x EXCEPT !.at = "chain", !.stl_path = TRUE]
                ELSE [x EXCEPT !.at = "validate",
                               !.mesh = synthetic_mesh_bytes(format, component)]
    /\ UNCHANGED <<registryVars, tools, lastReg, dispatchVars, lastCall, toolVars>>

\* _export_su2_via_tigl: import_module("meshio"); an ImportError is
\* re-raised as a MeshExportError.
su2_import ==
    /\ xp.at = "import"
    /\ \E installed \in BOOLEAN :
          xp' = IF installed THEN [xp EXCEPT !.at = "chain", !.stl_path = TRUE]
                ELSE Fail(xp, su2_error("Failed to export STL mesh via TiGL for",
                                       xp.component.uid,
                                       Details("No module named meshio", <<>>)))
    /\ UNCHANGED <<registryVars, tools, lastReg, dispatchVars, lastCall, toolVars>>

\* One candidate of _export_stl_bytes_via_tigl3: _try, which removes the
\* file before the call, and the return of the first mesh found, on which
\* the finally clause removes the file. For format stl,
\* _export_real_stl_bytes hands the bytes on when they are at least 2048
\* long.
stl_try ==
    /\ xp.at = "chain"
    /\ xp.route <= Len(Routes(xp.component))
    /\ \E e \in EngineResults :
          LET route == Routes(xp.component)[xp.route]
              t == try(xp.methods, route, e)
              left == unlink(xp.stl_path) \/ e.exists
          IN /\ ~t.called => e = EngineResult(FALSE, FALSE, NoBytes)
             /\ xp' =
                   IF ~t.called THEN [xp EXCEPT !.route = @ + 1]
                   ELSE IF ~t.found
                   THEN [xp EXCEPT !.route = @ + 1,
                                   !.tried = Append(@, route),
                                   !.errors = Append(@, TryError(route, t.error)),
                                   !.stl_path = left]
                   ELSE IF xp.format = "su2"
                   THEN [xp EXCEPT !.tried = Append(@, route),
                                   !.stl = t.out,
                                   !.stl_path = unlink(left),
                                   !.at = "convert"]
                   ELSE IF t.out.len >= MinStlSize
                   THEN [xp EXCEPT !.tried = Append(@, route),
                                   !.stl = t.out,
                                   !.mesh = t.out,
                                   !.stl_path = unlink(left),
                                   !.at = "validate"]
                   ELSE Fail([xp EXCEPT !.tried = Append(@, route),
                                        !.stl = t.out,
                                        !.stl_path = unlink(left)],
                             NoRealStlError("too small"))
    /\ UNCHANGED <<registryVars, tools, lastReg, dispatchVars, lastCall, toolVars>>

\* No candidate gave a mesh: _export_stl_bytes_via_tigl3 raises its
\* MCPError through the finally clause that removes the file, which _export_su2_via_tigl re-raises as it is and
\* _export_real_stl_bytes replaces by its own.
stl_exhausted ==
    /\ xp.at = "chain"
    /\ xp.route > Len(Routes(xp.component))
    /\ LET x == [xp EXCEPT !.stl_path = unlink(@)]
       IN xp' = IF xp.format = "su2"
                THEN Fail(x, NoRouteError(xp.errors))
                ELSE Fail(x, NoRealStlError("MCPError: No working STL export route found."))
    /\ UNCHANGED <<registryVars, tools, lastReg, dispatchVars, lastCall, toolVars>>

\* _export_su2_via_tigl with the STL in hand: the empty check, meshio's
\* read and write, and the check of what was written.
su2_convert ==
    /\ xp.at = "convert"
    /\ IF xp.stl.len = 0
       THEN xp' = Fail(xp, su2_error("TiGL returned empty STL mesh for",
                                    xp.component.uid, NoDetails))
       ELSE \E c \in ConvertResults :
               xp' = IF c.raises
                     THEN Fail(xp, su2_error("Failed to export SU2 mesh via meshio for",
                                            xp.component.uid,
                                            Details("meshio error", <<>>)))
                     ELSE LET e == su2_check(c.out, xp.component.uid)
                          IN IF e # NoMCPError
                             THEN Fail([xp EXCEPT !.mesh = c.out], e)
                             ELSE [xp EXCEPT !.mesh = c.out, !.at = "validate"]
    /\ UNCHANGED <<registryVars, tools, lastReg, dispatchVars, lastCall, toolVars>>

\* Lines 387-396: _validate_mesh_bytes, then the response with the
\* base64 text of the bytes.
validate_mesh ==
    /\ xp.at = "validate"
    /\ LET e == validate_mesh_bytes(xp.mesh, xp.format, xp.component)
       IN xp' = IF e # NoMCPError THEN Fail(xp, e)
                ELSE [xp EXCEPT !.at = "done",
                                !.outcome = Outcome("ok", "", NoMCPError,
                                                    xp.format,
                                                    b64encode(xp.mesh))]
    /\ UNCHANGED <<registryVars, tools, lastReg, dispatchVars, lastCall, toolVars>>

\* The caller takes the outcome.
export_return ==
    /\ xp.at = "done"
    /\ xp' = NoExport
    /\ UNCHANGED <<registryVars, tools, lastReg, dispatchVars, lastCall, toolVars>>

ExportNext ==
    \/ \E component \in Components : \E format \in RequestFormats :
          \E methods \in ExportMethodSets :
             export_begin(component, format, methods)
    \/ su2_import
    \/ stl_try
    \/ stl_exhausted
    \/ su2_convert
    \/ validate_mesh
    \/ export_return

ExportSpec == Init /\ [][ExportNext]_vars

\* --------------------------------------------- configuration CAD export

\* The sets of CAD export methods a tigl handle exposes as callables: none
\* (the stand-in of cpacs.py), single methods, and engine builds.
CadMethodSets ==
    { {}, {"exportIGES"}, {"exportSTEP"}, {"export"}, {"exportconfiguration"},
      {"exportFusedSTEP", "exportSTEP", "exportFusedIGES", "exportIGES"},
      {"exportStep", "exportIges", "exportConfiguration"} }

\* The entry points _export_configuration_cad_bytes_via_tigl tries, in its
\* order: the methods named after the format, then the fallbacks that take
\* the format from the file name.
CadCandidates(cad_format) ==
    (IF cad_format = "step"
     THEN <<"exportFusedSTEP", "exportSTEP", "exportFusedStep", "exportStep">>
     ELSE <<"exportFusedIGES", "exportIGES", "exportFusedIges", "exportIges">>)
    \o <<"exportConfiguration", "exportconfiguration", "export">>

\* What the call of an entry point does: fn(path) raises ("TypeError" or
\* another exception) or returns; after a TypeError of a format-named
\* method fn(path, True) raises or returns; and the file it left at
\* out_path, if any.
CadResults ==
    { [exc |-> x, retry |-> r, exists |-> e[1], file |-> e[2]] :
        x \in {"", "TypeError", "RuntimeError"}, r \in {"", "RuntimeError"},
        e \in { <<FALSE, NoBytes>>, <<TRUE, NoBytes>>,
                <<TRUE, Bytes(400, <<"ISO-10303-21", "data">>)>> } }

\* Lines 489-504 of the handler with the handles of a session: cpacs_xml,
\* export_capable, and either the stub payload with source "stub" or the
\* call of _export_configuration_cad_bytes_via_tigl with source "tigl",
\* which creates its temporary file and removes it before the first
\* candidate.
cad_begin(format, methods, xml_content) ==
    /\ cad.at = "idle"
    /\ LET export_capable ==
              methods \cap {"exportFusedSTEP", "exportSTEP",
                            "exportConfiguration", "export"} # {}
           cad_bytes == Bytes(10, <<"cad:", format, ":", xml_content>>)
           c == [NoCad EXCEPT !.format = format, !.methods = methods,
                              !.xml_content = xml_content]
       IN cad' = IF export_capable
                 THEN [c EXCEPT !.at = "chain", !.route = 1,
                                !.out_path = unlink(TRUE)]
                 ELSE [c EXCEPT !.at = "done", !.source = "stub",
                                !.outcome = Outcome("ok", "", NoMCPError, format,
                                                    b64encode(cad_bytes))]
    /\ UNCHANGED <<registryVars, tools, lastReg, dispatchVars, exportVars,
                   pu, doc>>

\* One candidate of _export_configuration_cad_bytes_via_tigl: skipped when
\* the handle has no such callable; otherwise recorded in tried and called.
\* An exception goes to errors (a TypeError of a format-named method only
\* after the call with a second argument raised too); after a call that
\* returned, a file that exists at out_path and is not empty, written by
\* this call or left by an earlier one, is returned and the handler
\* responds with source "tigl". After the last candidate the CadExportError
\* is raised. The finally clause removes the file on both ways out.
cad_try ==
    /\ cad.at = "chain"
    /\ IF cad.route > Len(CadCandidates(cad.format))
       THEN cad' = [cad EXCEPT
                      !.at = "done",
                      !.out_path = unlink(@),
                      !.content = IF unlink(cad.out_path) THEN @ ELSE NoBytes,
                      !.outcome =
                          Outcome("error", "MCPError",
                                  raise_mcp_error("CadExportError",
                                                  <<"TiGL could not export CAD.",
                                                    cad.format, "">>,
                                                  Details("", Truncate(cad.errors, MaxCadDiagnostics))),
                                  cad.format, <<"", NoBytes>>)]
       ELSE \E e \in CadResults :
               LET name == CadCandidates(cad.format)[cad.route]
                   named == cad.route <= 4
                   exc == IF e.exc = "TypeError" /\ named THEN e.retry ELSE e.exc
                   path == cad.out_path \/ e.exists
                   content == IF e.exists THEN e.file ELSE cad.content
                   called == [cad EXCEPT !.route = @ + 1,
                                         !.tried = Append(@, name),
                                         !.out_path = path,
                                         !.content = content]
               IN IF name \notin cad.methods
                  THEN /\ e = [exc |-> "", retry |-> "", exists |-> FALSE,
                               file |-> NoBytes]
                       /\ cad' = [cad EXCEPT !.route = @ + 1]
                  ELSE /\ (e.exc # "TypeError" \/ ~named) => e.retry = ""
                       /\ cad' =
                             IF exc # ""
                             THEN [called EXCEPT
                                     !.errors = Append(@, [name |-> name, exc |-> exc])]
                             ELSE IF path /\ content.len > 0
                             THEN [called EXCEPT
                                     !.at = "done", !.source = "tigl",
                                     !.out_path = unlink(path),
                                     !.content = IF unlink(path) THEN content
                                                 ELSE NoBytes,
                                     !.outcome = Outcome("ok", "", NoMCPError,
                                                         cad.format,
                                                         b64encode(content))]
                             ELSE called
    /\ UNCHANGED <<registryVars, tools, lastReg, dispatchVars, exportVars,
                   pu, doc>>

\* The caller takes the outcome.
cad_return ==
    /\ cad.at = "done"
    /\ cad' = NoCad
    /\ UNCHANGED <<registryVars, tools, lastReg, dispatchVars, exportVars,
                   pu, doc>>

CadNext ==
    \/ \E format \in {"step", "iges"} : \E methods \in CadMethodSets :
          \E xml_content \in {"", "<cpacs>"} :
             cad_begin(format, methods, xml_content)
    \/ cad_try
    \/ cad_return

CadSpec == Init /\ [][CadNext]_vars

\* The export calls of one caller, one at a time: a mesh export or a CAD
\* export is begun only when no other is under way.
ChainNext ==
    \/ cad.at = "idle" /\ ExportNext
    \/ xp.at = "idle" /\ CadNext

ChainSpec == Init /\ [][ChainNext]_vars

\* What the gmsh run of _step_to_stl_bytes does: subprocess.run raises (no
\* gmsh executable), or the process ends with a return code, having left a
\* file at stl_path or none.
GmshResults ==
    { [raises |-> TRUE, returncode |-> 0, exists |-> FALSE, file |-> NoBytes],
      [raises |-> FALSE, returncode |-> 1, exists |-> FALSE, file |-> NoBytes],
      [raises |-> FALSE, returncode |-> 1, exists |-> TRUE, file |-> NoBytes],
      [raises |-> FALSE, returncode |-> 0, exists |-> FALSE, file |-> NoBytes],
      [raises |-> FALSE, returncode |-> 0, exists |-> TRUE,
       file |-> Bytes(MinStlSize + 1, <<"solid", "data">>)] }

\* _step_to_stl_bytes(step_path): the temporary file is created and
\* removed, gmsh runs, a non-zero return code raises MeshExportError, the
\* file is read (FileNotFoundError when there is none), and the finally
\* clause removes it.
step_to_stl_bytes ==
    /\ xp.at = "idle"
    /\ \E g \in GmshResults :
          LET left == unlink(TRUE) \/ g.exists
              exc == IF g.raises \/ (g.returncode = 0 /\ ~left)
                     THEN "FileNotFoundError"
                     ELSE IF g.returncode # 0 THEN "MCPError" ELSE ""
              error == IF exc = "MCPError"
                       THEN raise_mcp_error("MeshExportError",
                                <<"gmsh failed converting STEP->STL", "">>,
                                Details("gmsh output", <<>>))
                       ELSE NoMCPError
          IN xp' = [NoExport EXCEPT
                      !.at = "done", !.format = "stl",
                      !.stl = IF exc = "" THEN g.file ELSE NoBytes,
                      !.stl_path = unlink(left),
                      !.outcome = Outcome(IF exc = "" THEN "ok" ELSE "error",
                                          exc, error, "stl", <<"", NoBytes>>)]
    /\ UNCHANGED <<registryVars, tools, lastReg, dispatchVars, lastCall, toolVars>>

\* The routines that write a temporary file, one call at a time.
TempNext ==
    \/ ChainNext
    \/ cad.at = "idle" /\ step_to_stl_bytes

TempSpec == Init /\ [][TempNext]_vars

\* ------------------------------------------- set_high_level_parameters

\* The update values a client sends: 30.0, 85.0, "+10%", "-5", "30", "abc".
UpdateValues ==
    { Num(30), Num(85), Str(<<"+", "10", "%">>), Str(<<"-", "5">>),
      Str(<<"30">>), Str(<<"abc">>) }

\* params.updates: a dict, i.e. its items in insertion order, of one or two
\* distinct keys.
Batches ==
    { <<<<k, v>>>> : k \in Keys, v \in UpdateValues }
    \cup { b \in { <<<<k1, v1>>, <<k2, v2>>>> :
                       k1 \in Keys, k2 \in Keys,
                       v1 \in UpdateValues, v2 \in UpdateValues } :
             b[1][1] # b[2][1] }

\* The digits float() reads in the strings above.
DigitsValue(s) ==
    CASE s = "5" -> 5
      [] s = "10" -> 10
      [] s = "30" -> 30
      [] OTHER -> -1

\* float(text) of a str: an optional sign and digits; anything else raises
\* ValueError.
float(chars) ==
    LET signed == chars # <<>> /\ chars[1] \in {"+", "-"}
        body == IF signed THEN Tail(chars) ELSE chars
        ok == Len(body) = 1 /\ DigitsValue(body[1]) >= 0
    IN [ok |-> ok,
        n |-> IF ~ok THEN 0
              ELSE IF signed /\ chars[1] = "-"
                   THEN 0 - Float(DigitsValue(body[1]))
                   ELSE Float(DigitsValue(body[1]))]

RECURSIVE rstrip(_)
\* update_value.rstrip("%")
rstrip(chars) ==
    IF chars # <<>> /\ chars[Len(chars)] = "%"
    THEN rstrip(SubSeq(chars, 1, Len(chars) - 1))
    ELSE chars

\* component.parameters.get(key): the value, or None.
Current(parameters, key) ==
    IF key \in DOMAIN parameters
    THEN [known |-> TRUE, n |-> parameters[key]]
    ELSE [known |-> FALSE, n |-> 0]

\* An _apply_update whose numeric update is added to the current value.
apply_update_Add(current, update_value) ==
    IF update_value.type = "float"
    THEN [exc |-> "", error |-> NoMCPError,
          value |-> current.n + update_value.n]
    ELSE [exc |-> "ValueError", error |-> NoMCPError, value |-> 0]

\* An _apply_update that takes an unknown current value for 0.0.
apply_update_FromZero(current, update_value) ==
    LET chars == update_value.chars
    IN IF update_value.type = "float"
       THEN [exc |-> "", error |-> NoMCPError, value |-> update_value.n]
       ELSE IF ~float(rstrip(chars)).ok
       THEN [exc |-> "ValueError", error |-> NoMCPError, value |-> 0]
       ELSE IF chars[Len(chars)] = "%"
       THEN [exc |-> "", error |-> NoMCPError,
             value |-> current.n
                          + (current.n * float(rstrip(chars)).n)
                               \div Float(100)]
       ELSE IF chars[1] \in {"+", "-"}
       THEN [exc |-> "", error |-> NoMCPError,
             value |-> current.n + float(chars).n]
       ELSE [exc |-> "", error |-> NoMCPError, value |-> float(chars).n]

\* _apply_update(current, update_value): the float it returns, or the
\* exception it raises (the MCPError UpdateError, or the ValueError of
\* float()).
apply_update(current, update_value) ==
    LET chars == update_value.chars
        Value(n) == [exc |-> "", error |-> NoMCPError, value |-> n]
        Raise(exc, error) == [exc |-> exc, error |-> error, value |-> 0]
        Refuse(text) ==
            Raise("MCPError",
                  raise_mcp_error("UpdateError", <<text, "">>, NoDetails))
        Parsed(f, n) == IF f.ok THEN Value(n)
                        ELSE Raise("ValueError", NoMCPError)
    IN IF update_value.type \in {"int", "float"}
       THEN Value(update_value.n)
       ELSE IF update_value.type = "str"
       THEN IF chars # <<>> /\ chars[Len(chars)] = "%"
            THEN IF ~current.known
                 THEN Refuse("Cannot apply percentage to unknown value")
                 ELSE LET f == float(rstrip(chars))
                      IN Parsed(f, current.n
                                      + (current.n * f.n) \div Float(100))
            ELSE IF chars # <<>> /\ chars[1] \in {"+", "-"}
            THEN IF ~current.known
                 THEN Refuse(
                          "Cannot apply relative change to unknown value")
                 ELSE Parsed(float(chars), current.n + float(chars).n)
            ELSE Parsed(float(chars), float(chars).n)
       ELSE Refuse("Unsupported update type")

\* A loop that rebuilds component.parameters from the updates alone.
apply_updates_Replace(parameters, updates, warnings) ==
    [exc |-> "", error |-> NoMCPError,
     parameters |-> [k \in { updates[i][1] : i \in DOMAIN updates } |->
                        Float(1)],
     warnings |-> warnings]

RECURSIVE apply_updates(_, _, _)
\* The loop over params.updates.items(): each value is applied to
\* component.parameters in place; an MCPError leaves the loop at once, any
\* other exception is appended to warnings and the loop goes on.
apply_updates(parameters, updates, warnings) ==
    IF updates = <<>>
    THEN [exc |-> "", error |-> NoMCPError, parameters |-> parameters,
          warnings |-> warnings]
    ELSE LET key == updates[1][1]
             r == apply_update(Current(parameters, key), updates[1][2])
         IN IF r.exc = ""
            THEN apply_updates(
                     [k \in DOMAIN parameters \cup {key} |->
                         IF k = key THEN r.value ELSE parameters[k]],
                     Tail(updates), warnings)
            ELSE IF r.exc = "MCPError"
            THEN [exc |-> "MCPError", error |-> r.error,
                  parameters |-> parameters, warnings |-> warnings]
            ELSE apply_updates(parameters, Tail(updates),
                               Append(warnings, <<"Skipped", key>>))

\* set_high_level_parameters entered with the config of a session, from
\* find_component on: NotFound when the component is missing, else the
\* loop, then the response or the MCPError the loop raised.
set_parameters(component_uid, updates) ==
    /\ pu.calls < MaxCalls
    /\ LET found == component_uid \in DOMAIN pu.components
           before == IF found THEN pu.components[component_uid]
                     ELSE [k \in {} |-> 0]
           r == apply_updates(before, updates, <<>>)
           repeats == /\ pu.last.component_uid = component_uid
                      /\ pu.last.updates = updates
       IN IF ~found
          THEN pu' = [pu EXCEPT
                 !.calls = @ + 1,
                 !.last = SetCall(component_uid, updates, before, repeats,
                                  "error",
                                  raise_mcp_error("NotFound",
                                      <<"Component not found", component_uid>>,
                                      NoDetails),
                                  before, <<>>)]
          ELSE pu' = [pu EXCEPT
                 !.calls = @ + 1,
                 !.components[component_uid] = r.parameters,
                 !.last = IF r.exc = ""
                          THEN SetCall(component_uid, updates, before, repeats,
                                       "ok", NoMCPError, r.parameters,
                                       r.warnings)
                          ELSE SetCall(component_uid, updates, before, repeats,
                                       "error", r.error, before, <<>>)]
    /\ UNCHANGED <<registryVars, tools, lastReg, dispatchVars, exportVars,
                   cad, doc>>

ParamNext ==
    \/ \E updates \in Batches : set_parameters("W1", updates)
    \/ \E updates \in {<<<<"span", Num(30)>>>>} :
          set_parameters("MISSING", updates)

ParamSpec == Init /\ [][ParamNext]_vars

\* --------------------------------------------------- parsed documents

\* A component element of a document: its tag and its uid attribute ("" when
\* the element has none).
Elements == [tag : {"wing", "fuselage", "rotor", "engine"}, uid : {"", "W1"}]

RECURSIVE Documents(_)
\* The documents of up to n component elements, in document order.
Documents(n) ==
    IF n = 0 THEN { <<>> }
    ELSE Documents(n - 1)
         \cup { Append(d, e) : d \in { x \in Documents(n - 1) : Len(x) = n - 1 },
                               e \in Elements }

\* tag.capitalize()
capitalize(tag) ==
    CASE tag = "wing" -> "Wing"
      [] tag = "fuselage" -> "Fuselage"
      [] tag = "rotor" -> "Rotor"
      [] tag = "engine" -> "Engine"

\* BoundingBox.from_index(index), in quarters of a unit.
from_index(index) ==
    [xmin |-> 4 * index, xmax |-> 4 * index + 4,
     ymin |-> 0 - 4 * index, ymax |-> 4 * index + 2,
     zmin |-> 0 - (index + 1), zmax |-> index + 1]

RECURSIVE min(_)
\* min(values) of a non-empty sequence
min(values) ==
    IF Len(values) = 1 THEN values[1]
    ELSE LET m == min(Tail(values))
         IN IF values[1] <= m THEN values[1] ELSE m

RECURSIVE max(_)
\* max(values) of a non-empty sequence
max(values) ==
    IF Len(values) = 1 THEN values[1]
    ELSE LET m == max(Tail(values))
         IN IF values[1] >= m THEN values[1] ELSE m

\* A combine that returns the box of the first component.
combine_First(boxes) ==
    IF boxes = <<>>
    THEN [xmin |-> 0, xmax |-> 0, ymin |-> 0, ymax |-> 0, zmin |-> 0,
          zmax |-> 0]
    ELSE boxes[1]

\* BoundingBox.combine(boxes)
combine(boxes) ==
    IF boxes = <<>>
    THEN [xmin |-> 0, xmax |-> 0, ymin |-> 0, ymax |-> 0, zmin |-> 0,
          zmax |-> 0]
    ELSE [xmin |-> min([i \in DOMAIN boxes |-> boxes[i].xmin]),
          xmax |-> max([i \in DOMAIN boxes |-> boxes[i].xmax]),
          ymin |-> min([i \in DOMAIN boxes |-> boxes[i].ymin]),
          ymax |-> max([i \in DOMAIN boxes |-> boxes[i].ymax]),
          zmin |-> min([i \in DOMAIN boxes |-> boxes[i].zmin]),
          zmax |-> max([i \in DOMAIN boxes |-> boxes[i].zmax])]

\* _parse_components(root, tag): one ComponentDefinition per element of the
\* tag, in document order, numbered from 1; an element without uid gets
\* "<tag>_<index>".
parse_components(elements, tag) ==
    LET found == SelectSeq(elements, LAMBDA e : e.tag = tag)
    IN [index \in DOMAIN found |->
           ComponentDefinition(
               IF found[index].uid # "" THEN found[index].uid
               ELSE tag \o "_" \o ToString(index),
               index, capitalize(tag), "")]

\* CPACSConfiguration.all_components()
all_components(configuration) ==
    configuration.wings \o configuration.fuselages
        \o configuration.rotors \o configuration.engines

\* CPACSConfiguration.bounding_box(): every component carries
\* BoundingBox.from_index(index).
bounding_box(configuration) ==
    combine([i \in DOMAIN all_components(configuration) |->
                from_index(all_components(configuration)[i].index)])

\* A find_component that returns the last component of the uid.
find_component_Last(configuration, uid) ==
    LET all == all_components(configuration)
        hits == { i \in DOMAIN all : all[i].uid = uid }
    IN IF hits = {} THEN [position |-> 0, component |-> NoComponent]
       ELSE LET i == CHOOSE i \in hits : \A j \in hits : j <= i
            IN [position |-> i, component |-> all[i]]

RECURSIVE find_from(_, _, _)
\* for component in self.all_components(): if component.uid == uid: return
find_from(all, uid, i) ==
    IF i > Len(all) THEN [position |-> 0, component |-> NoComponent]
    ELSE IF all[i].uid = uid THEN [position |-> i, component |-> all[i]]
    ELSE find_from(all, uid, i + 1)

\* CPACSConfiguration.find_component(uid): the component returned and its
\* place in all_components(), or None.
find_component(configuration, uid) ==
    find_from(all_components(configuration), uid, 1)

\* parse_cpacs(xml_content) of a document: the Configuration is kept with
\* the elements it was parsed from.
parse_document(elements) ==
    /\ ~doc.parsed
    /\ doc' = [parsed |-> TRUE, elements |-> elements,
               configuration |->
                   [wings |-> parse_components(elements, "wing"),
                    fuselages |-> parse_components(elements, "fuselage"),
                    rotors |-> parse_components(elements, "rotor"),
                    engines |-> parse_components(elements, "engine")],
               listed |-> FALSE, components |-> <<>>,
               summarized |-> FALSE, box |-> combine(<<>>),
               looked |-> "", found |-> NoDoc.found]
    /\ UNCHANGED <<registryVars, tools, lastReg, dispatchVars, exportVars,
                   cad, pu>>

\* list_geometric_components entered with the config of a session, called
\* without type_filter: the entries of all_components(), each with its
\* parameters, symmetry and bounding_box removed.
list_geometric_components ==
    /\ doc.parsed
    /\ ~doc.listed
    /\ LET all == all_components(doc.configuration)
       IN doc' = [doc EXCEPT
             !.listed = TRUE,
             !.components = [i \in DOMAIN all |->
                                [uid |-> all[i].uid, name |-> all[i].uid,
                                 index |-> all[i].index,
                                 type |-> all[i].type_name]]]
    /\ UNCHANGED <<registryVars, tools, lastReg, dispatchVars, exportVars,
                   cad, pu>>

\* get_configuration_summary entered with the config of a session: the
\* config.bounding_box() it computes.
configuration_summary ==
    /\ doc.parsed
    /\ ~doc.summarized
    /\ doc' = [doc EXCEPT !.summarized = TRUE,
                          !.box = bounding_box(doc.configuration)]
    /\ UNCHANGED <<registryVars, tools, lastReg, dispatchVars, exportVars,
                   cad, pu>>

\* config.find_component(component_uid), as the tools that take a
\* component uid call it.
lookup(uid) ==
    /\ doc.parsed
    /\ doc.looked = ""
    /\ doc' = [doc EXCEPT !.looked = uid,
                          !.found = find_component(doc.configuration, uid)]
    /\ UNCHANGED <<registryVars, tools, lastReg, dispatchVars, exportVars,
                   cad, pu>>

\* The document is dropped.
discard_document ==
    /\ doc.parsed
    /\ doc' = NoDoc
    /\ UNCHANGED <<registryVars, tools, lastReg, dispatchVars, exportVars,
                   cad, pu>>

DocNext ==
    \/ \E elements \in Documents(MaxElements) : parse_document(elements)
    \/ list_geometric_components
    \/ configuration_summary
    \/ \E uid \in {"W1", "wing_1"} : lookup(uid)
    \/ discard_document

DocSpec == Init /\ [][DocNext]_vars

\* ---------------------------------------------------------- tool handlers

\* The session-scoped tools whose handlers are called with raw parameters.
HandlerTools ==
    {"export_component_mesh", "export_configuration_cad",
     "get_configuration_summary"}

\* str(uuid.uuid4()): the session_id a client holds for token t.
SessionId(t) == "session-" \o ToString(t)

\* The key of self._sessions a session_id string stands for (0: none).
TokenOf(session_id) ==
    IF \E t \in Tokens : SessionId(t) = session_id
    THEN CHOOSE t \in Tokens : SessionId(t) = session_id
    ELSE 0

\* The raw_params a client passes to a handler: well-formed ones for every
\* session_id, with a known or an unknown component and a format inside or
\* outside MeshFormat, and ones that lack a required field.
HandlerArgs(tool) ==
    IF tool = "export_component_mesh"
    THEN { [session_id |-> SessionId(t), component_uid |-> u, format |-> f] :
             t \in Tokens, u \in {"W1", "MISSING"},
             f \in {"stl", "su2", "obj"} }
         \cup { [session_id |-> SessionId(t), format |-> "stl"] : t \in Tokens }
    ELSE IF tool = "export_configuration_cad"
    THEN { [session_id |-> SessionId(t), format |-> f] :
             t \in Tokens, f \in {"step", "iges", "stl"} }
    ELSE { [session_id |-> SessionId(t)] : t \in Tokens } \cup { EmptyArgs }

\* What the body of a handler raised: the class of the exception ("" when
\* it raised nothing), the MCPError when it is one, and str(exc).
Raised(exc, error, text) == [exc |-> exc, error |-> error, text |-> text]

NoRaise == Raised("", NoMCPError, "")

\* How far the body of a handler got, and what it raised there.
Body(reached, raised) == [reached |-> reached, raised |-> raised]

\* The kind and message each handler gives an exception that is no
\* MCPError (its `except Exception` clause).
HandlerKind(tool) ==
    IF tool = "export_component_mesh"
    THEN [type |-> "MeshExportError",
          message |-> "Failed to export component mesh"]
    ELSE IF tool = "export_configuration_cad"
    THEN [type |-> "CadExportError",
          message |-> "Failed to export configuration"]
    ELSE [type |-> "SummaryError",
          message |-> "Failed to build configuration summary"]

\* config.find_component(uid), then the search by parameters["tigl_uid"]:
\* whether a component is found.
ResolvesComponent(components, uid) ==
    \/ uid \in DOMAIN components
    \/ \E c \in DOMAIN components :
          /\ "tigl_uid" \in DOMAIN components[c]
          /\ components[c].tigl_uid = uid

\* The try block of a handler: model_validate, require_session and the
\* three-way unpacking of what it returned, and, for
\* export_component_mesh, the resolution of the component and
\* _ensure_export_supported, after which the export functions are entered;
\* for export_configuration_cad the CAD export is entered after the
\* unpacking.
handler_body(tool, raw) ==
    LET v == model_validate(tool, raw)
    IN IF ~v.ok
       THEN Body("validate",
                 Raised("ValidationError", NoMCPError,
                        "validation error for " \o tool))
       ELSE
       LET session_id == v.value.session_id
           data == DictGet(sessions, TokenOf(session_id))
           e == InvalidSessionError(session_id)
           u == Unpack3(data)
       IN IF data = NoData
          THEN Body("session",
                    Raised("MCPError",
                           raise_mcp_error(e.type, e.message, NoDetails), ""))
          ELSE IF ~u.ok
          THEN Body("unpack",
                    Raised(u.exc, NoMCPError,
                           "cannot unpack non-iterable SessionData object"))
          ELSE IF tool = "get_configuration_summary"
          THEN Body("summary", NoRaise)
          ELSE IF tool = "export_configuration_cad"
          THEN Body("cad", NoRaise)
          ELSE IF ~ResolvesComponent(config[u.value[3]], v.value.component_uid)
          THEN Body("resolve",
                    Raised("MCPError",
                           raise_mcp_error("NotFound",
                                           <<"Component not found",
                                             v.value.component_uid>>,
                                           NoDetails), ""))
          ELSE IF ensure_export_supported(v.value.format,
                                          v.value.component_uid) # NoMCPError
          THEN Body("supported",
                    Raised("MCPError",
                           ensure_export_supported(v.value.format,
                                                   v.value.component_uid), ""))
          ELSE Body("export", NoRaise)

\* A handler boundary that re-wraps every exception, MCPError included.
handler_boundary_WrapAll(tool, body) ==
    IF body.raised.exc = ""
    THEN Outcome("ok", "", NoMCPError, "", <<"", NoBytes>>)
    ELSE Outcome("error", "MCPError",
                 raise_mcp_error(HandlerKind(tool).type,
                                 <<HandlerKind(tool).message, "">>,
                                 Details(body.raised.text, <<>>)),
                 "", <<"", NoBytes>>)

\* The except clauses of a handler: an MCPError is re-raised as it is, any
\* other exception becomes an MCPError of the handler's kind whose details
\* are str(exc).
handler_boundary(tool, body) ==
    IF body.raised.exc = ""
    THEN Outcome("ok", "", NoMCPError, "", <<"", NoBytes>>)
    ELSE IF body.raised.exc = "MCPError"
    THEN Outcome("error", "MCPError", body.raised.error, "", <<"", NoBytes>>)
    ELSE Outcome("error", "MCPError",
                 raise_mcp_error(HandlerKind(tool).type,
                                 <<HandlerKind(tool).message, "">>,
                                 Details(body.raised.text, <<>>)),
                 "", <<"", NoBytes>>)

\* What the record says of the session a session_id string names.
PhaseOf(raw) ==
    IF "session_id" \in DOMAIN raw /\ TokenOf(raw.session_id) \in Tokens
    THEN Phase(TokenOf(raw.session_id))
    ELSE "unknown"

\* A handler call that also resets the Configuration of every session.
handler_call_Reset(tool, raw) ==
    /\ lastCall = NoCall
    /\ LockAvailable(lock)
    /\ LET body == handler_body(tool, raw)
       IN lastCall' = Call(tool, raw, PhaseOf(raw), body.reached, body.raised,
                           handler_boundary(tool, body))
    /\ config' = [k \in DOMAIN config |-> NoConfig]
    /\ UNCHANGED <<sessions, lock, issued, handleClass, nobjs, tiglCalls,
                   tixiCalls, pc, req, loc, result, created, returned,
                   closedOk, tools, lastReg, dispatchVars, xp, toolVars>>

\* A client calls handler(raw_params) of a tool while no thread holds the
\* registry lock; the call runs to its end.
handler_call(tool, raw) ==
    /\ lastCall = NoCall
    /\ LockAvailable(lock)
    /\ LET body == handler_body(tool, raw)
       IN lastCall' = Call(tool, raw, PhaseOf(raw), body.reached, body.raised,
                           handler_boundary(tool, body))
    /\ UNCHANGED <<registryVars, tools, lastReg, dispatchVars, xp, toolVars>>

\* The client takes the outcome.
handler_return ==
    /\ lastCall # NoCall
    /\ lastCall' = NoCall
    /\ UNCHANGED <<registryVars, tools, lastReg, dispatchVars, xp, toolVars>>

\* One client opens and closes sessions while handlers are called.
HandlerNext ==
    \/ \E th \in {"t1"} :
          \/ open_cpacs(th)
          \/ create_session_uuid(th)
          \/ create_session_store(th)
          \/ create_session_return(th)
          \/ \E t \in Tokens : close_call(th, t)
          \/ close_read(th)
          \/ close_tigl(th)
          \/ close_tixi(th)
          \/ close_del(th)
          \/ close_exit(th)
          \/ Return(th)
    \/ \E tool \in HandlerTools : \E raw \in HandlerArgs(tool) :
          handler_call(tool, raw)
    \/ handler_return

HandlerSpec == Init /\ [][HandlerNext]_vars

\* ------------------------------------------------------------ properties

\* A request of thread th that has ended and is of one of the kinds.
Ended(th, kinds) == pc[th] = "done" /\ req[th].kind \in kinds

IsInvalidSession(r, t) ==
    /\ r.status = "error"
    /\ r.error.type = "InvalidSession"
    /\ r.error.message[2] = t

\* C1: once close(t) has returned normally, t is never again in the registry
\* (whatever sessions are created later), and every get(t), close(t) and
\* session-scoped tool call on t that begins afterwards fails with an
\* MCPError of type InvalidSession.
C1_ClosedTokenStaysInvalid ==
    /\ \A t \in closedOk : t \notin DOMAIN sessions
    /\ \A th \in Threads :
          (Ended(th, {"get", "close", "tool"}) /\ req[th].phase = "closed")
              => IsInvalidSession(result[th], req[th].tok)

\* C1 witness: a tool call begun after its token's close returned has failed
\* with InvalidSession, while the registry holds another session, created
\* with a later uuid.
C1_Witness ==
    \E th \in Threads :
        /\ Ended(th, {"tool"})
        /\ req[th].phase = "closed"
        /\ IsInvalidSession(result[th], req[th].tok)
        /\ \E u \in DOMAIN sessions : u > req[th].tok

\* C2 (as claimed): a tool call that a close of its token raced ends either
\* with InvalidSession or with its domain logic completed.
C2_RacingCallFailsOrCompletes ==
    \A th \in Threads :
        (Ended(th, {"tool"}) /\ req[th].raced)
            => \/ IsInvalidSession(result[th], req[th].tok)
               \/ result[th].status = "ok" /\ result[th].at = "handler"

\* create_session's store never lands on a token that is in the registry.
C3_StoreStep ==
    \A th \in Threads :
        (pc[th] = "c_lock" /\ pc'[th] = "c_exit")
            => loc[th].data.session_id \notin DOMAIN sessions

ReleasedOnce(calls, methods, names) ==
    calls = IF FirstCallable(methods, names) = "" THEN <<>>
            ELSE <<FirstCallable(methods, names)>>

\* C4: a close that found its token in the registry calls the release of
\* the configuration handle, then the release of the document handle,
\* whether or not the first raised, then removes the entry and returns
\* normally; no exception other than the InvalidSession of a missing token
\* leaves close.
C4_CloseReleasesBothAndRemoves ==
    \A th \in Threads :
        /\ pc[th] \in {"x_tixi", "x_del"}
              => ReleasedOnce(tiglCalls[loc[th].data.tigl_handle],
                              handleClass.tigl, TiglCloseNames)
        /\ pc[th] = "x_del"
              => ReleasedOnce(tixiCalls[loc[th].data.tixi_handle],
                              handleClass.tixi, TixiCloseNames)
        /\ pc[th] = "x_exit" => loc[th].exc.type = "InvalidSession"
        /\ (Ended(th, {"close"}) /\ result[th].status = "error")
              => /\ IsInvalidSession(result[th], req[th].tok)
                 /\ loc[th].raised = {}
        /\ (Ended(th, {"close"}) /\ result[th].status = "ok")
              => /\ req[th].tok \notin DOMAIN sessions
                 /\ result[th].data.session_id = req[th].tok
                 /\ ReleasedOnce(tiglCalls[result[th].data.tigl_handle],
                                 handleClass.tigl, TiglCloseNames)
                 /\ ReleasedOnce(tixiCalls[result[th].data.tixi_handle],
                                 handleClass.tixi, TixiCloseNames)

\* C4 witness: a close whose two release calls both raised has returned
\* normally, and its token is out of the registry.
C4_Witness ==
    \E th \in Threads :
        /\ Ended(th, {"close"})
        /\ result[th].status = "ok"
        /\ loc[th].raised = {"tigl", "tixi"}
        /\ req[th].tok \notin DOMAIN sessions

\* C5 (as claimed): get on a token that create_session returned and no close
\* has closed returns the stored handles and model, and a tool call on it
\* does not fail at session resolution: it reaches its domain logic with
\* the stored document handle, configuration handle and model.
C5_LiveSessionResolves ==
    \A th \in Threads :
        (/\ Ended(th, {"get", "tool"})
         /\ req[th].phase = "live"
         /\ req[th].tok \notin closedOk)
            => /\ result[th].at = IF req[th].kind = "get" THEN "registry"
                                  ELSE "handler"
               /\ result[th].status = "ok"
               /\ result[th].data = created[req[th].tok]

\* A step of get or close that raises, or passes on, the error of a token
\* that is not in the registry.
C6_Step(th) ==
    /\ pc[th] \in {"g_lock", "x_lock"}
          => /\ pc'[th] \in {"g_exit", "x_exit"}
             /\ loc'[th].exc = MCPError("InvalidSession", "Unknown session_id",
                                        req[th].tok)
    /\ pc[th] \in {"g_exit", "x_exit"}
          => /\ pc'[th] = "done"
             /\ IsInvalidSession(result'[th], req[th].tok)
    /\ UNCHANGED <<sessions, tiglCalls, tixiCalls>>

\* C6: get(t) and close(t) for a token t that is not in the registry raise
\* an MCPError of type InvalidSession whose message names t, and leave the
\* registry and every handle's release calls as they were.
C6_UnknownTokenRaises ==
    [][\A th \in Threads :
          (/\ pc'[th] # pc[th]
           /\ req[th].kind \in {"get", "close"}
           /\ \/ pc[th] \in {"g_lock", "x_lock"}
                    /\ req[th].tok \notin DOMAIN sessions
              \/ pc[th] \in {"g_exit", "x_exit"} /\ loc[th].exc # NoError)
              => C6_Step(th)]_vars

\* C6 witness: a close of a token that was never created and a get of a
\* closed token have both failed with InvalidSession.
C6_Witness ==
    \E a \in Threads : \E b \in Threads \ {a} :
        /\ Ended(a, {"close"})
        /\ req[a].phase = "unknown"
        /\ IsInvalidSession(result[a], req[a].tok)
        /\ Ended(b, {"get"})
        /\ req[b].phase = "closed"
        /\ IsInvalidSession(result[b], req[b].tok)

\* The only step that takes a token out of the registry is the end of a
\* close of that token, which returns normally.
C7_RemovalStep ==
    \A t \in DOMAIN sessions :
        t \notin DOMAIN sessions'
            => \E th \in Threads :
                  /\ req[th].kind = "close"
                  /\ req[th].tok = t
                  /\ pc[th] = "x_del"
                  /\ result'[th].status = "ok"
                  /\ t \in closedOk'

\* C7: from the return of create_session to the normal return of a close of
\* its token, a session stays in the registry with the handles and model it
\* was created with, a get of it returns them, and nothing but that close
\* removes it.
C7_LivesUntilClosed ==
    /\ [](\A t \in Tokens :
            (returned[t] > 0 /\ t \notin closedOk)
                => /\ t \in DOMAIN sessions
                   /\ sessions[t] = created[t]
                   /\ sessions[t].session_id = t)
    /\ [](\A th \in Threads :
            (/\ Ended(th, {"get"})
             /\ req[th].phase = "live"
             /\ req[th].tok \notin closedOk)
                => /\ result[th].status = "ok"
                   /\ result[th].data = created[req[th].tok])
    /\ [][C7_RemovalStep]_vars

\* C7 witness: a get of a live session has returned its data after another
\* session was created and closed.
C7_Witness ==
    \E th \in Threads :
        /\ Ended(th, {"get"})
        /\ req[th].phase = "live"
        /\ result[th].status = "ok"
        /\ result[th].data = created[req[th].tok]
        /\ req[th].tok \in DOMAIN sessions
        /\ closedOk # {}

\* Session b is as it was: in the registry with the same data, its
\* Configuration's parameters and its handles' release calls unchanged.
C8_Frame(b) ==
    /\ b \in DOMAIN sessions'
    /\ sessions'[b] = sessions[b]
    /\ config'[sessions[b].config] = config[sessions[b].config]
    /\ tiglCalls'[sessions[b].tigl_handle] = tiglCalls[sessions[b].tigl_handle]
    /\ tixiCalls'[sessions[b].tixi_handle] = tixiCalls[sessions[b].tixi_handle]

\* C8: two sessions in the registry never share a Configuration, a document
\* handle or a configuration handle, and a step changes a session in the
\* registry only when it is a step of a close of that session's own token.
C8_SessionsIndependent ==
    /\ [](\A a \in DOMAIN sessions : \A b \in DOMAIN sessions \ {a} :
            /\ sessions[a].config # sessions[b].config
            /\ sessions[a].tixi_handle # sessions[b].tixi_handle
            /\ sessions[a].tigl_handle # sessions[b].tigl_handle)
    /\ [][\A b \in DOMAIN sessions :
             \/ C8_Frame(b)
             \/ \E th \in Threads :
                   /\ req[th].kind = "close"
                   /\ req[th].tok = b
                   /\ pc[th] \in {"x_tigl", "x_tixi", "x_del"}
                   /\ pc'[th] # pc[th]]_vars

\* C8 witness: with two sessions opened from the same document, a close of
\* one has returned and a set_high_level_parameters call on it has ended,
\* and the other is in the registry with its parameters as parsed and no
\* release call on its handles.
C8_Witness ==
    \E a \in Threads : \E c \in Threads \ {a} : \E b \in DOMAIN sessions :
        /\ Ended(a, {"close"})
        /\ result[a].status = "ok"
        /\ req[a].tok # b
        /\ Ended(c, {"tool"})
        /\ req[c].tool = "set_high_level_parameters"
        /\ req[c].tok = req[a].tok
        /\ config[sessions[b].config] = parse_cpacs
        /\ tiglCalls[sessions[b].tigl_handle] = <<>>
        /\ tixiCalls[sessions[b].tixi_handle] = <<>>

\* C9: a thread is inside a `with self._lock:` block of create_session, get
\* or close only while it holds the lock, at most one thread is inside one,
\* and the registry holds exactly the tokens that were stored and whose
\* close has not returned normally.
C9_LockGuardsRegistry ==
    /\ \A th \in Threads : pc[th] \in InCritical <=> lock = th
    /\ \A a \in Threads : \A b \in Threads \ {a} :
          ~(pc[a] \in InCritical /\ pc[b] \in InCritical)
    /\ DOMAIN sessions = {t \in Tokens : created[t] # NoData} \ closedOk

\* C9 witness: one thread is inside close's with block while another waits
\* at create_session's and the registry holds a session.
C9_Witness ==
    \E a \in Threads : \E b \in Threads \ {a} :
        /\ pc[a] = "x_tixi"
        /\ pc[b] = "c_lock"
        /\ lock = a
        /\ DOMAIN sessions # {}

\* C10: register_tool with a name that is in the catalog raises ValueError
\* and leaves the catalog as it was: same names, each with the tool
\* definition it had.
C10_DuplicateRegistrationRejected ==
    [][\A tool \in ToolDefinitions :
          (lastReg'.tool = tool /\ tool.name \in DOMAIN tools)
              => /\ lastReg'.outcome = "ValueError"
                 /\ tools' = tools]_vars

\* C10 witness: the registration of a second definition of a registered
\* name has raised ValueError, and the catalog holds the first definition.
C10_Witness ==
    /\ lastReg.outcome = "ValueError"
    /\ lastReg.tool.name \in DOMAIN tools
    /\ tools[lastReg.tool.name] # lastReg.tool
    /\ Cardinality(DOMAIN tools) > 1

\* ------------------------------------------------- properties: dispatch

\* C11 (as claimed): every run_tool call ends with a result or with a
\* structured error (an MCPError, carrying type, message and details); no
\* KeyError, ValueError or other exception leaves the dispatcher.
C11_DispatchEndsStructured ==
    lastRun.op = "run_tool" => lastRun.exc \in {"", "MCPError"}

\* The raw arguments p do not match the declared input shape of tool name:
\* a required field is missing, a field is not declared, or a field's
\* value is not of its declared type.
C12_Mismatch(name, p) ==
    LET schema == parameters_model(name)
    IN \/ \E f \in DOMAIN schema : schema[f].default = "" /\ f \notin DOMAIN p
       \/ \E f \in DOMAIN p : f \notin DOMAIN schema
       \/ \E f \in DOMAIN p \cap DOMAIN schema :
             TypeName(p[f]) # schema[f].annotation

\* The checked arguments of raw arguments p that match the shape of tool
\* name: every declared field, with the value given or its default.
C12_Checked(name, p, args) ==
    LET schema == parameters_model(name)
    IN /\ DOMAIN args = DOMAIN schema
       /\ \A f \in DOMAIN schema :
             args[f] = IF f \in DOMAIN p THEN p[f] ELSE schema[f].default

C13_LookupValidateInvoke ==
    lastRun.op = "run_tool"
        => IF lastRun.name \notin DOMAIN tools
           THEN /\ lastRun.steps = <<"lookup">>
                /\ lastRun.exc = "KeyError"
                /\ lastRun.message = <<"Tool is not registered", lastRun.name>>
           ELSE IF C12_Mismatch(lastRun.name, lastRun.parameters)
                THEN /\ lastRun.steps = <<"lookup", "validate">>
                     /\ lastRun.handlerArgs = EmptyArgs
                ELSE /\ lastRun.steps = <<"lookup", "validate", "invoke">>
                     /\ C12_Checked(lastRun.name, lastRun.parameters,
                                    lastRun.handlerArgs)

\* C13 witness: a handler was invoked, after lookup and validation, with
\* validated arguments that carry a default the request did not give, and
\* returned its payload.
C13_Witness ==
    /\ lastRun.op = "run_tool"
    /\ lastRun.steps = <<"lookup", "validate", "invoke">>
    /\ "n_points_per_curve" \notin DOMAIN lastRun.parameters
    /\ "n_points_per_curve" \in DOMAIN lastRun.handlerArgs
    /\ lastRun.handlerArgs["n_points_per_curve"] = DefaultPoints
    /\ lastRun.value = ToolResult("intersect_components", "payload")

\* A step that is a run_tool call, a catalog read or a registration that
\* raised.
C14_ReadOrFailedStep ==
    \/ lastRun' # lastRun
    \/ lastReg'.outcome = "ValueError"

\* C14: the keys of to_catalog() and the list available_tools() returns
\* are exactly the names whose registration succeeded, each once; and
\* to_catalog, available_tools, run_tool (whether it returns or raises)
\* and registrations that fail leave the catalog as it was.
C14_CatalogReflectsRegistered ==
    /\ [](/\ DOMAIN to_catalog_dict(tools) = registered
          /\ lastRun.op = "to_catalog" => lastRun.keys = registered
          /\ lastRun.op = "available_tools"
                => /\ {lastRun.names[i] : i \in 1 .. Len(lastRun.names)}
                        = registered
                   /\ Len(lastRun.names) = Cardinality(registered))
    /\ [][C14_ReadOrFailedStep => tools' = tools]_vars

\* C14 witness: after a duplicate registration was rejected,
\* available_tools returned the two registered names.
C14_Witness ==
    /\ lastRun.op = "available_tools"
    /\ Len(lastRun.names) = 2
    /\ lastReg.outcome = "ValueError"
    /\ registered # ToolNames


\* ---------------------------------------------------- properties: handlers

\* The bytes a base64 text stands for.
b64decode(s) == s[2]

\* A handler call of the tool has ended.
Called(tool) == lastCall.tool = tool

\* The named kind of each handler.
KindOf(tool) ==
    IF tool = "export_component_mesh" THEN "MeshExportError"
    ELSE IF tool = "export_configuration_cad" THEN "CadExportError"
    ELSE "SummaryError"

\* C15: every failure that leaves a session-scoped handler is an MCPError
\* with type, message and details: an MCPError raised in the body leaves
\* with its type and message unchanged, and any other exception leaves as
\* an MCPError of the handler's kind whose details are the exception's
\* message.
C15_FailuresLeaveAsMCPError ==
    \A tool \in HandlerTools :
        Called(tool) =>
            LET r == lastCall.raised
                o == lastCall.outcome
            IN /\ o.status = "error" <=> r.exc # ""
               /\ o.status = "error" =>
                     /\ o.exc = "MCPError"
                     /\ DOMAIN o.error = {"type", "message", "details"}
                     /\ o.error.type # ""
               /\ r.exc = "MCPError" =>
                     /\ o.error.type = r.error.type
                     /\ o.error.message = r.error.message
               /\ r.exc \notin {"", "MCPError"} =>
                     /\ o.error.type = KindOf(tool)
                     /\ r.text # ""
                     /\ o.error.details.text = r.text

\* C15 witness: on a live session the summary handler's unpacking raised a
\* TypeError, which left the handler as a SummaryError with the TypeError's
\* message as details.
C15_Witness ==
    /\ Called("get_configuration_summary")
    /\ lastCall.phase = "live"
    /\ lastCall.raised.exc = "TypeError"
    /\ lastCall.outcome.error.type = "SummaryError"
    /\ lastCall.outcome.error.details.text =
          "cannot unpack non-iterable SessionData object"

\* C16: export_component_mesh on a live session with a component_uid that
\* no component has fails with NotFound, and the message names the uid.
C16_MissingComponentNotFound ==
    (/\ Called("export_component_mesh")
     /\ lastCall.phase = "live"
     /\ DOMAIN lastCall.raw = {"session_id", "component_uid", "format"}
     /\ lastCall.raw.component_uid = "MISSING"
     /\ lastCall.raw.format \in MeshFormat)
        => /\ lastCall.outcome.status = "error"
           /\ lastCall.outcome.error.type = "NotFound"
           /\ lastCall.outcome.error.message = <<"Component not found", "MISSING">>

\* C17: export_component_mesh with a format outside {stl, vtk, collada,
\* su2} fails with an export error, whatever the session and the component
\* are, and it fails at the validation of its parameters: before the
\* session is looked up and before any engine entry point is called.
C17_UnknownFormatFailsFirst ==
    (/\ Called("export_component_mesh")
     /\ "format" \in DOMAIN lastCall.raw
     /\ lastCall.raw.format \notin {"stl", "vtk", "collada", "su2"})
        => /\ lastCall.outcome.status = "error"
           /\ lastCall.outcome.exc = "MCPError"
           /\ lastCall.outcome.error.type = "MeshExportError"
           /\ lastCall.reached = "validate"
           /\ xp = NoExport

\* C17 witness: format "obj" was asked of a live session for an existing
\* component, and the call ended in a MeshExportError.
C17_Witness ==
    /\ Called("export_component_mesh")
    /\ lastCall.phase = "live"
    /\ lastCall.raw.format = "obj"
    /\ "component_uid" \in DOMAIN lastCall.raw
    /\ lastCall.raw.component_uid = "W1"
    /\ lastCall.outcome.error.type = "MeshExportError"

\* C21: export_component_mesh with format stl for an existing component of
\* a live session returns a response whose decoded bytes begin with
\* "solid <uid>" and contain "vertex".
C21_StlExportReturnsSolid ==
    (/\ Called("export_component_mesh")
     /\ lastCall.phase = "live"
     /\ DOMAIN lastCall.raw = {"session_id", "component_uid", "format"}
     /\ lastCall.raw.component_uid = "W1"
     /\ lastCall.raw.format = "stl")
        => /\ lastCall.outcome.status = "ok"
           /\ LET b == b64decode(lastCall.outcome.mesh_base64)
              IN /\ Len(b.chunks) >= 2
                 /\ b.chunks[1] = "solid"
                 /\ b.chunks[2] = "W1"
                 /\ \E i \in DOMAIN b.chunks : b.chunks[i] = "vertex"

\* C23: export_configuration_cad on a live session opened from the
\* document text returns a response whose decoded cad payload is the stub
\* "cad:<format>:<document text>", so that it contains the document text
\* and two exports of the same session and format are identical.
C23_CadExportIncludesCpacs ==
    (/\ Called("export_configuration_cad")
     /\ lastCall.phase = "live"
     /\ lastCall.raw.format \in {"step", "iges"})
        => /\ lastCall.outcome.status = "ok"
           /\ LET b == b64decode(lastCall.outcome.mesh_base64)
              IN b.chunks = <<"cad:", lastCall.raw.format, ":", "<cpacs>">>

\* An export handler call has just ended.
ExportCallEnds ==
    /\ lastCall = NoCall
    /\ lastCall' # NoCall
    /\ lastCall'.tool \in {"export_component_mesh", "export_configuration_cad"}

\* C24: a call of export_component_mesh or export_configuration_cad,
\* whether it succeeds or fails, leaves the Configuration of every session
\* and the session registry as they were.
C24_ExportsLeaveSessionUnchanged ==
    [][ExportCallEnds => /\ sessions' = sessions
                         /\ config' = config
                         /\ issued' = issued]_vars

\* C24 witness: an export call on a live session has ended and the session
\* is still registered with the components it was opened with.
C24_Witness ==
    /\ lastCall # NoCall
    /\ lastCall.tool \in {"export_component_mesh", "export_configuration_cad"}
    /\ lastCall.phase = "live"
    /\ DictGet(sessions, TokenOf(lastCall.raw.session_id)) # NoData
    /\ config[DictGet(sessions, TokenOf(lastCall.raw.session_id)).config]
           = parse_cpacs

\* ------------------------------------------------------ properties: export

\* An export has ended with a response.
ExportOk == xp.at = "done" /\ xp.outcome.status = "ok"

\* An export has ended with an MCPError of type MeshExportError.
ExportFailed ==
    /\ xp.at = "done"
    /\ xp.outcome.status = "error"
    /\ xp.outcome.exc = "MCPError"
    /\ xp.outcome.error.type = "MeshExportError"

\* The bytes start with a legacy handle prefix.
HasHandlePrefix(b) == \E p \in HandlePrefixes : StartsWith(b, p)

C19_NoRouteNamesFormatAndUid ==
    (xp.at = "done" /\ xp.format = "su2" /\ xp.stl.len = 0)
        => /\ ExportFailed
           /\ xp.outcome.error.message =
                 raise_unsupported_format("su2", xp.component.uid).message

\* The bytes hold the SU2 marker.
HasMarker(b) == \E i \in DOMAIN b.chunks : b.chunks[i] = "NDIME="

\* C20: an su2 response is derived from an STL that a candidate of the
\* chain for that component left, and its payload contains "NDIME="; an
\* empty STL, a failed conversion or a converted payload without the
\* marker ends in a MeshExportError.
C20_Su2FromStlWithMarker ==
    (xp.at = "done" /\ xp.format = "su2")
        => /\ xp.outcome.status = "ok" =>
                 /\ xp.stl.len > 0
                 /\ xp.tried # <<>>
                 /\ \E i \in 1 .. Len(Routes(xp.component)) :
                       /\ Routes(xp.component)[i] = xp.tried[Len(xp.tried)]
                       /\ Routes(xp.component)[i].method \in xp.methods
                 /\ b64decode(xp.outcome.mesh_base64) = xp.mesh
                 /\ HasMarker(xp.mesh)
           /\ (xp.stl.len = 0 \/ xp.mesh.len = 0 \/ ~HasMarker(xp.mesh))
                 => ExportFailed

\* C20 witness: an su2 export has returned a response after two candidates
\* of the chain failed and a third left the STL.
C20_Witness ==
    /\ ExportOk
    /\ xp.format = "su2"
    /\ Len(xp.errors) = 2
    /\ Len(xp.tried) = 3
    /\ HasMarker(b64decode(xp.outcome.mesh_base64))

\* The place of a candidate in the order of the STL chain of a component:
\* by uid (in the order of the uid candidates), then by index, then the
\* whole geometry; for each selector with the deflection first.
Rank(component, route) ==
    LET uids == uid_candidates(component)
        class == IF route.method \in {"exportMeshedWingSTLByUID",
                                      "exportMeshedFuselageSTLByUID"} THEN 1
                 ELSE IF route.method \in {"exportMeshedWingSTL",
                                           "exportMeshedFuselageSTL"} THEN 2
                 ELSE 3
        pos == IF class = 1 /\ \E i \in DOMAIN uids : uids[i] = route.selector
               THEN CHOOSE i \in DOMAIN uids : uids[i] = route.selector
               ELSE 0
    IN 100 * class + 10 * pos + (IF route.deflection THEN 0 ELSE 1)

\* The candidate belongs to the chain of the component: a wing method for a
\* wing, a fuselage method for a fuselage, or the whole-geometry method,
\* with a uid candidate, the index or nothing as its selector.
InChain(component, route) ==
    LET uids == uid_candidates(component)
        family == IF component.type_name = "Wing" THEN "exportMeshedWingSTL"
                  ELSE IF component.type_name = "Fuselage"
                       THEN "exportMeshedFuselageSTL"
                       ELSE "none"
    IN \/ /\ route.method = family \o "ByUID"
          /\ \E i \in DOMAIN uids : uids[i] = route.selector
       \/ /\ route.method = family
          /\ route.selector = "#" \o ToString(component.index)
       \/ /\ route.method = "exportMeshedGeometrySTL"
          /\ route.selector = ""

\* C31: the candidates of the STL chain are invoked in the fixed order
\* by-uid with and without deflection, by-index with and without
\* deflection, whole geometry with and without deflection; the STL taken is
\* the file, larger than 2048 bytes, of the last candidate invoked, every
\* candidate invoked before it gave no such file, none is invoked after
\* it, and an stl response carries exactly these bytes.
C31_FirstValidStlWins ==
    (xp.at # "idle")
        => /\ \A i \in DOMAIN xp.tried :
                 /\ InChain(xp.component, xp.tried[i])
                 /\ xp.tried[i].method \in xp.methods
           /\ \A i \in DOMAIN xp.tried : \A j \in DOMAIN xp.tried :
                 i < j => Rank(xp.component, xp.tried[i])
                             < Rank(xp.component, xp.tried[j])
           /\ \A i \in DOMAIN xp.errors :
                 /\ i \in DOMAIN xp.tried
                 /\ xp.errors[i].method = xp.tried[i].method
                 /\ xp.errors[i].selector = xp.tried[i].selector
                 /\ xp.errors[i].deflection = xp.tried[i].deflection
           /\ xp.stl.len > 0
                 => /\ xp.stl.len > MinStlSize
                    /\ xp.at # "chain"
                    /\ Len(xp.tried) = Len(xp.errors) + 1
           /\ xp.stl.len = 0 => Len(xp.tried) = Len(xp.errors)
           /\ (ExportOk /\ xp.format = "stl")
                 => /\ xp.stl.len > 0
                    /\ b64decode(xp.outcome.mesh_base64) = xp.stl

\* C31 witness: an stl export of the wing W_2 has returned the file of the
\* by-index candidate without deflection after the four by-uid candidates
\* and the by-index candidate with deflection gave none.
C31_Witness ==
    /\ ExportOk
    /\ xp.format = "stl"
    /\ xp.component.uid = "W_2"
    /\ Len(xp.tried) = 6
    /\ xp.tried[6].method = "exportMeshedWingSTL"
    /\ ~xp.tried[6].deflection
    /\ Len(xp.errors) = 5

\* C34: a response of a native mesh format (stl, vtk, collada) was preceded
\* by the call of an engine export method for that component: no native
\* response is produced without an engine call.
C34_NativeExportCallsEngine ==
    (ExportOk /\ xp.format \in {"stl", "vtk", "collada"})
        => /\ xp.tried # <<>>
           /\ InChain(xp.component, xp.tried[Len(xp.tried)])

\* --------------------------------------------------------- properties: CAD

\* C22: the stub payload is returned only when the handle exposes none of
\* the entry points that can produce the requested format, the source tag
\* is "stub" exactly when the payload is the stub, and it is another tag
\* exactly when the payload is a file an entry point wrote.
C22_StubOnlyWithoutEntryPoint ==
    (cad.at = "done" /\ cad.outcome.status = "ok")
        => LET payload == b64decode(cad.outcome.mesh_base64)
               stub == payload.chunks[1] = "cad:"
           IN /\ stub =>
                    \A i \in DOMAIN CadCandidates(cad.format) :
                        CadCandidates(cad.format)[i] \notin cad.methods
              /\ cad.source = "stub" <=> stub
              /\ cad.source # "stub" <=>
                    (cad.tried # <<>> /\ payload.chunks[1] = "ISO-10303-21")

\* C33: the CAD export invokes the entry points the handle exposes in the
\* fixed order of the candidates of the format, none of them skipped; a
\* response with an engine payload carries a non-empty file; and when the
\* handle exposes a candidate of the format the call ends with an engine
\* payload or with a CadExportError, never with the stub.
C33_CadChainOrdered ==
    (cad.at = "done")
        => LET candidates == CadCandidates(cad.format)
               exposed == { i \in DOMAIN candidates :
                              candidates[i] \in cad.methods }
           IN /\ \A i \in DOMAIN cad.tried : \E k \in exposed :
                    /\ candidates[k] = cad.tried[i]
                    /\ Cardinality({ j \in exposed : j < k }) = i - 1
              /\ cad.source = "tigl"
                    => /\ cad.outcome.status = "ok"
                       /\ b64decode(cad.outcome.mesh_base64).len > 0
              /\ exposed # {}
                    => \/ cad.source = "tigl"
                       \/ /\ cad.outcome.status = "error"
                          /\ cad.outcome.error.type = "CadExportError"

\* ------------------------------------------------ properties: both chains

\* The sequence is the first entries of errors, at most cap of them.
IsCappedPrefix(diagnostics, errors, cap) ==
    /\ Len(diagnostics) <= cap
    /\ Len(diagnostics) <= Len(errors)
    /\ Len(diagnostics) = cap \/ Len(diagnostics) = Len(errors)
    /\ \A i \in DOMAIN diagnostics : diagnostics[i] = errors[i]

\* C32: when every candidate of a chain was gone through without a valid
\* payload the call fails with an export error whose diagnostics are
\* capped: the error of the STL chain carries the first per-attempt
\* messages, at most 20, the error of the CAD chain the first, at most 10,
\* and the error _export_real_stl_bytes makes of the STL chain's carries
\* one text and no list.
C32_DiagnosticsCapped ==
    /\ (/\ xp.at = "done"
        /\ xp.format \in {"stl", "su2"}
        /\ xp.route > Len(Routes(xp.component)))
          => /\ ExportFailed
             /\ Len(xp.outcome.error.details.errors) <= 20
             /\ xp.format = "su2"
                   => IsCappedPrefix(xp.outcome.error.details.errors,
                                     xp.errors, 20)
             /\ xp.format = "stl"
                   => xp.outcome.error.details.errors = <<>>
    /\ (/\ cad.at = "done"
        /\ cad.route > Len(CadCandidates(cad.format))
        /\ cad.source # "tigl")
          => /\ cad.outcome.status = "error"
             /\ cad.outcome.error.type = "CadExportError"
             /\ IsCappedPrefix(cad.outcome.error.details.errors,
                               cad.errors, 10)

\* C32 witness: an su2 export of the wing W_2 has failed after all eight
\* candidates of its chain were called, and its error carries the eight
\* messages.
C32_Witness ==
    /\ ExportFailed
    /\ xp.format = "su2"
    /\ xp.component.uid = "W_2"
    /\ Len(xp.tried) = 8
    /\ Len(xp.outcome.error.details.errors) = 8

\* C32 second case: a CAD export has failed after every entry point the
\* handle exposes raised, and its error carries their messages.
C32_CadExhausted ==
    /\ cad.at = "done"
    /\ cad.outcome.status = "error"
    /\ Len(cad.tried) = 2
    /\ Len(cad.outcome.error.details.errors) = 2

\* ------------------------------------------- properties: parameter updates

\* C25: in set_high_level_parameters a failure applying one key (a
\* percentage or signed delta on a key without current value included) is
\* a warning of the response and does not abort the batch: the call on a
\* found component returns the component's updated map, and every key of
\* the batch is either applied or named in a warning.
C25_KeyFailuresBecomeWarnings ==
    (pu.last.component_uid = "W1")
        => /\ pu.last.status = "ok"
           /\ pu.last.new_parameters = pu.components["W1"]
           /\ \A i \in DOMAIN pu.last.updates :
                 \/ pu.last.updates[i][1] \in DOMAIN pu.components["W1"]
                 \/ \E w \in DOMAIN pu.last.warnings :
                       pu.last.warnings[w] = <<"Skipped", pu.last.updates[i][1]>>

\* C26: for the first key of a batch, with current value c: a numeric v
\* gives v; a string ending in "%" with number N gives c*(1+N/100), that is
\* (new - c)*100 = c*N; a string starting with "+" or "-" with number N
\* gives c+N; and a percentage or signed delta on a key without current
\* value fails with UpdateError and the key is not created.
C26_UpdateArithmetic ==
    (pu.last.component_uid = "W1")
        => LET key == pu.last.updates[1][1]
               u == pu.last.updates[1][2]
               known == key \in DOMAIN pu.last.before
               new == pu.components["W1"]
               pct == u.type = "str" /\ u.chars[Len(u.chars)] = "%"
               signed == u.type = "str" /\ ~pct /\ u.chars[1] \in {"+", "-"}
               N == float(IF pct THEN rstrip(u.chars) ELSE u.chars)
           IN /\ u.type = "float" => key \in DOMAIN new /\ new[key] = u.n
              /\ (pct /\ known /\ N.ok)
                    => (new[key] - pu.last.before[key]) * Float(100)
                          = pu.last.before[key] * N.n
              /\ (signed /\ known /\ N.ok)
                    => new[key] = pu.last.before[key] + N.n
              /\ ((pct \/ signed) /\ ~known)
                    => /\ pu.last.status = "error"
                       /\ pu.last.error.type = "UpdateError"
                       /\ key \notin DOMAIN new

\* C26 witness: "+10%" was applied to span = 30.0 and span is 33.0.
C26_Witness ==
    /\ pu.last.component_uid = "W1"
    /\ pu.last.updates = <<<<"span", Str(<<"+", "10", "%">>)>>>>
    /\ pu.last.before["span"] = Float(30)
    /\ pu.last.status = "ok"
    /\ pu.components["W1"]["span"] = Float(33)

\* A batch made only of absolute numeric values.
Absolute(updates) ==
    \A i \in DOMAIN updates : updates[i][2].type = "float"

\* C27: when a batch of absolute numeric values is applied to a component
\* twice in a row, the second call leaves the component's parameter map
\* equal to the map after the first, and returns it.
C27_AbsoluteUpdatesIdempotent ==
    (/\ pu.last.component_uid = "W1"
     /\ pu.last.repeats
     /\ Absolute(pu.last.updates))
        => /\ pu.components["W1"] = pu.last.before
           /\ pu.last.status = "ok"
           /\ pu.last.new_parameters = pu.last.before

\* C27 witness: a batch of two absolute values was applied a second time, to
\* the map its first application had changed (span set to 85.0, sweep
\* created).
C27_Witness ==
    /\ pu.last.component_uid = "W1"
    /\ pu.last.repeats
    /\ Absolute(pu.last.updates)
    /\ Len(pu.last.updates) = 2
    /\ "sweep" \in DOMAIN pu.last.before
    /\ pu.last.before["span"] = Float(85)
    /\ pu.last.before # SampleParameters["W1"]

\* --------------------------------------------------- properties: documents

\* C28: for every parsed document, one that defines a uid more than once
\* included, list_geometric_components without a filter returns every uid
\* exactly once: no two entries of the list share a uid.
C28_ListedUidsUnique ==
    doc.listed
        => \A i \in DOMAIN doc.components : \A j \in DOMAIN doc.components :
              i # j => doc.components[i].uid # doc.components[j].uid

\* The boxes of the components of the four categories.
ComponentBoxes(configuration) ==
    { from_index(c.index) :
        c \in { configuration.wings[i] : i \in DOMAIN configuration.wings }
           \cup { configuration.fuselages[i] :
                    i \in DOMAIN configuration.fuselages }
           \cup { configuration.rotors[i] : i \in DOMAIN configuration.rotors }
           \cup { configuration.engines[i] :
                    i \in DOMAIN configuration.engines } }

\* v is the least (greatest) of the values.
IsMinimum(v, values) == v \in values /\ \A w \in values : v <= w

IsMaximum(v, values) == v \in values /\ \A w \in values : v >= w

\* C30: the aggregate bounding box of a configuration is the componentwise
\* envelope of the boxes of the components of all four categories: each min
\* field is the minimum and each max field the maximum of that field, and a
\* configuration without components has the all-zero box.
C30_BoundingBoxIsEnvelope ==
    doc.summarized
        => LET boxes == ComponentBoxes(doc.configuration)
           IN IF boxes = {}
              THEN \A f \in DOMAIN doc.box : doc.box[f] = 0
              ELSE /\ IsMinimum(doc.box.xmin, { b.xmin : b \in boxes })
                   /\ IsMaximum(doc.box.xmax, { b.xmax : b \in boxes })
                   /\ IsMinimum(doc.box.ymin, { b.ymin : b \in boxes })
                   /\ IsMaximum(doc.box.ymax, { b.ymax : b \in boxes })
                   /\ IsMinimum(doc.box.zmin, { b.zmin : b \in boxes })
                   /\ IsMaximum(doc.box.zmax, { b.zmax : b \in boxes })

\* C30 witness: the box of a configuration of two wings and a fuselage has
\* been computed: x runs from 1.0 to 3.0 and z from -0.75 to 0.75.
C30_Witness ==
    /\ doc.summarized
    /\ Len(doc.configuration.wings) = 2
    /\ Len(doc.configuration.fuselages) = 1
    /\ doc.box.xmin = 4
    /\ doc.box.xmax = 12
    /\ doc.box.zmin = 0 - 3
    /\ doc.box.zmax = 3

\* C35: find_component(u) returns the first component with uid u in the
\* order wings, fuselages, rotors, engines and document order within a
\* category, and nothing when no component has uid u.
C35_FirstDefinitionWins ==
    (doc.looked # "")
        => LET all == doc.configuration.wings \o doc.configuration.fuselages
                         \o doc.configuration.rotors
                         \o doc.configuration.engines
               hits == { i \in DOMAIN all : all[i].uid = doc.looked }
           IN IF hits = {}
              THEN doc.found.position = 0 /\ doc.found.component = NoComponent
              ELSE /\ doc.found.position \in hits
                   /\ \A j \in hits : doc.found.position <= j
                   /\ doc.found.component = all[doc.found.position]

\* C35 witness: the document defines uid "W1" for a fuselage and, after
\* it, for a wing, and the lookup of "W1" has returned the wing.
C35_Witness ==
    /\ doc.looked = "W1"
    /\ Len(doc.elements) = 2
    /\ doc.elements[1] = [tag |-> "fuselage", uid |-> "W1"]
    /\ doc.elements[2] = [tag |-> "wing", uid |-> "W1"]
    /\ doc.found.position = 1
    /\ doc.found.component.type_name = "Wing"

\* -------------------------------------------------- properties: open_cpacs

\* Thread th's open_cpacs request ends with an error in this step.
FailedOpen(th) ==
    /\ pc[th] = "idle"
    /\ pc'[th] = "done"
    /\ req'[th].kind = "open"
    /\ result'[th].status = "error"

\* C29: an open_cpacs whose path source does not exist fails with
\* InvalidInput; one that finds the engine bindings unavailable, or whose
\* content the engine or the parser rejects, fails with OpenError; and a
\* failing open adds no session to the registry (and draws no session id).
C29_FailedOpenAddsNoSession ==
    [][\A th \in Threads :
          FailedOpen(th)
              => /\ sessions' = sessions
                 /\ issued' = issued
                 /\ created' = created
                 /\ result'[th].at = "source"
                       => result'[th].error.type = "InvalidInput"
                 /\ result'[th].at \in {"bindings", "api", "engine", "parse"}
                       => result'[th].error.type = "OpenError"
                 /\ result'[th].at \in {"source", "bindings", "api", "engine",
                                       "parse"}]_vars

\* C29 witness: an open of a missing path has failed with InvalidInput while
\* the registry holds the session of an earlier open.
C29_Witness ==
    \E th \in Threads :
       /\ pc[th] = "done"
       /\ req[th].kind = "open"
       /\ result[th].status = "error"
       /\ result[th].at = "source"
       /\ result[th].error.type = "InvalidInput"
       /\ \E t \in Tokens : DictGet(sessions, t) # NoData

\* ---------------------------------------------------- properties: fairness

\* The positions of a thread inside create_session, get or close.
Pending ==
    {"c_uuid", "c_lock", "g_lock", "x_lock"} \cup InCritical

C37_CloseStep ==
    \A th \in Threads :
        (pc[th] = "x_del" /\ pc'[th] = "done") => req[th].tok \notin closedOk

\* C37: of two close calls on the token of a session that is live when the
\* first of them begins, exactly one returns normally and the other fails
\* with InvalidSession, whether the second begins after the first has
\* returned or the two run at once; no token sees two normal returns; and
\* each handle has its release method invoked at most once in the run.
C37_DoubleCloseReleasesOnce ==
    /\ [](\A a \in Threads : \A b \in Threads \ {a} :
            (/\ Ended(a, {"close"}) /\ Ended(b, {"close"})
             /\ req[a].tok = req[b].tok
             /\ req[a].phase = "live" /\ req[b].phase = "live")
                => \/ /\ result[a].status = "ok"
                      /\ IsInvalidSession(result[b], req[b].tok)
                   \/ /\ result[b].status = "ok"
                      /\ IsInvalidSession(result[a], req[a].tok))
    /\ [](\A th \in Threads :
            (Ended(th, {"close"}) /\ req[th].phase = "closed")
                => IsInvalidSession(result[th], req[th].tok))
    /\ [](\A h \in Objects : Len(tiglCalls[h]) <= 1 /\ Len(tixiCalls[h]) <= 1)
    /\ [][C37_CloseStep]_vars

\* C37 witness: two closes of one live session ran at once; the first has
\* returned normally after one release call on each handle, the second has
\* failed with InvalidSession.
C37_Witness ==
    /\ Ended("t1", {"close"}) /\ Ended("t2", {"close"})
    /\ req["t1"].tok = req["t2"].tok
    /\ req["t1"].phase = "live" /\ req["t2"].phase = "live"
    /\ result["t1"].status = "ok"
    /\ IsInvalidSession(result["t2"], req["t2"].tok)
    /\ Len(tiglCalls[result["t1"].data.tigl_handle]) = 1
    /\ Len(tixiCalls[result["t1"].data.tixi_handle]) = 1

\* ------------------------------------- properties: frame of parameter updates

\* What a call of set_high_level_parameters leaves alone.
C38_Step ==
    LET uid == pu'.last.component_uid
        named == { pu'.last.updates[i][1] : i \in DOMAIN pu'.last.updates }
    IN /\ DOMAIN pu'.components = DOMAIN pu.components
       /\ \A u \in DOMAIN pu.components \ {uid} :
             pu'.components[u] = pu.components[u]
       /\ uid \in DOMAIN pu.components
             => /\ DOMAIN pu.components[uid] \subseteq DOMAIN pu'.components[uid]
                /\ DOMAIN pu'.components[uid]
                      \subseteq DOMAIN pu.components[uid] \cup named
                /\ \A k \in DOMAIN pu.components[uid] \ named :
                      pu'.components[uid][k] = pu.components[uid][k]
       /\ pu'.last.error.type = "NotFound" => pu'.components = pu.components

Refused(d, args) ==
    { k \in DOMAIN args :
        \/ args[k].name \in DOMAIN d
        \/ \E j \in 1 .. k - 1 : args[j].name = args[k].name }

\* A call of register_tools: no entry of the catalog is changed; without a
\* refused argument every argument is registered and the call returns; with
\* one, the call raises ValueError at the first refused argument, the
\* arguments before it are registered and no other name is added.
C39_Step ==
    LET args == lastReg'.args
        bad == Refused(tools, args)
        k == IF bad = {} THEN Len(args) + 1
             ELSE CHOOSE i \in bad : \A j \in bad : i <= j
    IN /\ \A n \in DOMAIN tools : n \in DOMAIN tools' /\ tools'[n] = tools[n]
       /\ DOMAIN tools' = DOMAIN tools \cup { args[j].name : j \in 1 .. k - 1 }
       /\ \A j \in 1 .. k - 1 : tools'[args[j].name] = args[j]
       /\ IF bad = {} THEN lastReg'.outcome = "ok"
          ELSE lastReg'.outcome = "ValueError" /\ lastReg'.at = k

\* C39: register_tools registers its arguments in order and is not atomic:
\* when the k-th is the first whose name is in the catalog or repeats an
\* earlier argument, the call raises there, the first k-1 remain
\* registered and none of the later ones is registered.
C39_RegisterToolsNotAtomic == [][C39_Step]_vars

\* C39 witness: a call of three arguments was refused at the second, which
\* repeats the name of the first; the first is in the catalog as given and
\* the third is not.
C39_Witness ==
    /\ lastReg.outcome = "ValueError"
    /\ lastReg.at = 2
    /\ Len(lastReg.args) = 3
    /\ lastReg.args[2].name = lastReg.args[1].name
    /\ lastReg.args[2] # lastReg.args[1]
    /\ tools[lastReg.args[1].name] = lastReg.args[1]
    /\ lastReg.args[3].name \notin DOMAIN tools

\* ---------------------------------------------- properties: temporary files

\* C40: outside the loops of the STL chain and of the CAD chain, that is
\* before a call, and once the chain or the STEP-to-STL conversion has
\* returned or raised, no file exists at the path of its temporary file.
C40_NoTemporaryFileLeft ==
    /\ xp.at # "chain" => ~xp.stl_path
    /\ cad.at # "chain" => ~cad.out_path

\* C40 witness: the STL chain has raised after every candidate failed, the
\* last one called having left a file too small to be a mesh, and no file
\* exists at the path.
C40_Witness ==
    /\ xp.at = "done"
    /\ xp.outcome.status = "error"
    /\ xp.route > Len(Routes(xp.component))
    /\ xp.errors # <<>>
    /\ xp.errors[Len(xp.errors)].kind = "small"
    /\ ~xp.stl_path

\* The CAD chain has returned the bytes of a file, and the file is gone.
C40_CadReturned ==
    /\ cad.at = "done"
    /\ cad.source = "tigl"
    /\ cad.outcome.status = "ok"
    /\ ~cad.out_path

\* The conversion has failed on gmsh's return code, and the file is gone.
C40_ConversionFailed ==
    /\ xp.at = "done"
    /\ xp.outcome.error.message[1] = "gmsh failed converting STEP->STL"
    /\ ~xp.stl_path
====
